---- MODULE Spec2Model ----
(***************************************************************************)
(* The TCP connection state machine of ethox                               *)
(* (ethox/src/layer/tcp/connection.rs): the control block `Connection`,    *)
(* the ingress handler `arrives`, the egress selector `next_send_segment`, *)
(* `set_recv_ack` and `open`, driven by one caller as in the single        *)
(* threaded stack.                                                         *)
(*                                                                         *)
(* Sequence numbers keep their 32-bit width.  TLC's integers are the       *)
(* signed 32-bit ones, so a sequence number is held as the two's           *)
(* complement reading of its 32 bits (a value s >= 2^31 is held as         *)
(* s - 2^32) and the arithmetic below wraps exactly as the 32-bit          *)
(* arithmetic does.                                                        *)
(***************************************************************************)
EXTENDS Integers, FiniteSets, Sequences, TLC

VARIABLES
    conn,             \* the Connection (the control block)
    four_tuple,       \* the FourTuple of the slot, behind EntryKey
    profile,          \* the slot's configuration and the peer it talks to
    now,              \* the caller's monotonic clock (Instant, in ms)
    pending,          \* the ReceivedSegment the last arrives returned, if any
    last,             \* the handler called last
    prior,            \* conn.current when that handler was entered
    signals,          \* the Signals the last arrives returned
    out,              \* the OutSignals the last next_send_segment returned
    open_result,      \* the Result of the last open
    panicked,         \* the panic that ended the program, "" while it runs
    deleted           \* a handler has returned delete: the slot is removed

vars == <<conn, four_tuple, profile, now, pending, last, prior,
          signals, out, open_result, panicked, deleted>>

-----------------------------------------------------------------------------
(* Bounds of the model.                                                    *)

MaxTime == 1
MaxDupAck == 2
\* The sequence space the peer and the connection may use up after their
\* initial sequence numbers.
MaxRecvSeq == 3
MaxSendSeq == 4

-----------------------------------------------------------------------------
(* Option<T>.                                                              *)

None == [some |-> FALSE]
Some(x) == [some |-> TRUE, v |-> x]

Min(a, b) == IF a <= b THEN a ELSE b
Max(a, b) == IF a >= b THEN a ELSE b

-----------------------------------------------------------------------------
(* wire::tcp::SeqNumber: 32-bit modular arithmetic and windowed ordering.  *)

I32Max == 2147483647
I32Min == (-I32Max) - 1

\* seq + n for an offset 0 <= n < 2^31, wrapping.
SeqAdd(s, n) ==
    IF s > I32Max - n
    THEN (((s - I32Max) - 1) + n) - I32Max - 1
    ELSE s + n

\* seq - n for an offset 0 <= n < 2^31, wrapping.
SeqSub(s, n) ==
    IF s < I32Min + n
    THEN (((s + I32Max) + 1) - n) + I32Max + 1
    ELSE s - n

\* (a - b) mod 2^32, read as a signed 32-bit value.
SeqDiff(a, b) ==
    IF a >= 0 /\ b < 0 /\ a > I32Max + b
    THEN ((a - I32Max) - 1) - ((b + I32Max) + 1)
    ELSE IF a < 0 /\ b >= 0 /\ a < I32Min + b
    THEN ((a + I32Max) + 1) - ((b - I32Max) - 1)
    ELSE a - b

\* a < b iff (b - a) mod 2^32 lies in (0, 2^31).
SeqLt(a, b) == SeqDiff(b, a) > 0
SeqLe(a, b) == a = b \/ SeqLt(a, b)
SeqGt(a, b) == SeqLt(b, a)

\* (probe - base) mod 2^32 < window, for a window below 2^31.
contains_in_window(base, probe, window) ==
    SeqDiff(probe, base) >= 0 /\ SeqDiff(probe, base) < window

-----------------------------------------------------------------------------
(* time::Expiration = Never | When(Instant); Never is the largest.         *)

Never == [never |-> TRUE, at |-> 0]
When(t) == [never |-> FALSE, at |-> t]

ExpLe(a, b) == b.never \/ (~a.never /\ a.at <= b.at)
ExpMin(a, b) == IF ExpLe(a, b) THEN a ELSE b

-----------------------------------------------------------------------------
(* wire::tcp::Flags and wire::tcp::Repr.  Of the flags only SYN, FIN and   *)
(* RST are read; sack_permitted and sack_ranges are constant (false, no    *)
(* ranges) in every segment built and never read, and are left out.        *)

NoFlags == [syn |-> FALSE, fin |-> FALSE, rst |-> FALSE]
FlagsRST == [syn |-> FALSE, fin |-> FALSE, rst |-> TRUE]
FlagsSYN == [syn |-> TRUE, fin |-> FALSE, rst |-> FALSE]
FlagsFIN == [syn |-> FALSE, fin |-> TRUE, rst |-> FALSE]

BoolToInt(b) == IF b THEN 1 ELSE 0

\* tcp::Repr::sequence_len: the payload plus one for SYN and one for FIN.
repr_sequence_len(segment) ==
    segment.payload_len + BoolToInt(segment.flags.syn) + BoolToInt(segment.flags.fin)

InnerRepr(flags, seq_number, ack_number, window_len, window_scale) ==
    [flags |-> flags, seq_number |-> seq_number, ack_number |-> ack_number,
     window_len |-> window_len, window_scale |-> window_scale,
     max_seg_size |-> None, payload_len |-> 0]

send_impl(inner, src, dst) ==
    [src_port |-> src, dst_port |-> dst,
     seq_number |-> inner.seq_number, flags |-> inner.flags,
     ack_number |-> inner.ack_number, window_len |-> inner.window_len,
     window_scale |-> inner.window_scale, max_seg_size |-> inner.max_seg_size,
     payload_len |-> inner.payload_len]

send_back(inner, segment) == send_impl(inner, segment.dst_port, segment.src_port)

send_to(inner, tuple) == send_impl(inner, tuple.local_port, tuple.remote_port)

-----------------------------------------------------------------------------
(* Signals, OutSignals, ReceivedSegment.                                   *)

SignalsDefault ==
    [delete |-> FALSE, reset |-> FALSE, receive |-> None, may_send |-> FALSE,
     answer |-> None]

OutSignals_none == [delete |-> FALSE, segment |-> None]
OutSignals_segment(segment) == [delete |-> FALSE, segment |-> Some(segment)]

Segment(repr, start, end) == [repr |-> repr, range |-> [start |-> start, end |-> end]]

ReceivedSegment_sequence_len(meta) ==
    meta.data_len + BoolToInt(meta.syn) + BoolToInt(meta.fin)

sequence_end(meta) == SeqAdd(meta.begin, ReceivedSegment_sequence_len(meta))

\* What a handler hands back: the connection after it, its return value, the
\* slot's four-tuple after it, and the panic it ended in ("" when it returned).
Returned(c, ret, four) == [c |-> c, ret |-> ret, four |-> four, panic |-> ""]
Panics(c, four, what) == [c |-> c, ret |-> SignalsDefault, four |-> four, panic |-> what]

-----------------------------------------------------------------------------
(* Connection.                                                             *)

U8Max == 255
DefaultMss == 536

\* u32::MAX, where saturating u32 arithmetic stops.  The congestion window
\* starts at 0 and grows by doubling or by at most a segment per acknowledged
\* segment, so it stays far below 2^31 - 1, the largest integer TLC computes
\* with, at which the saturation is held.
U32Max == I32Max

zeroed ==
    [current |-> "Closed",
     previous |-> "Closed",
     flow_control |-> [ssthresh |-> 0, congestion_window |-> 0],
     sender_maximum_segment_size |-> 0,
     receiver_maximum_segment_size |-> 0,
     ack_timer |-> Never,
     ack_timeout |-> 0,
     retransmission_timer |-> 0,
     retransmission_timeout |-> 0,
     restart_timeout |-> 0,
     duplicate_ack |-> 0,
     send |-> [unacked |-> 0, next |-> 0, last_time |-> 0, window |-> 0,
               window_scale |-> 0, initial_seq |-> 0],
     recv |-> [next |-> 0, acked |-> 0, last_time |-> 0, window |-> 0,
               window_scale |-> 0, initial_seq |-> 0]]

change_state(c, new) == [c EXCEPT !.previous = c.current, !.current = new]

\* ack_all returns recv.next; this is the connection it leaves.
ack_all(c) == [c EXCEPT !.recv.acked = c.recv.next, !.ack_timer = Never]

should_ack(c) == SeqLt(c.recv.acked, c.recv.next)

rearm_ack_timer(c, time) ==
    [c EXCEPT !.ack_timer =
        IF c.ack_timer.never THEN Never ELSE When(time + c.ack_timeout)]

rearm_retransmission_timer(c, time) ==
    [c EXCEPT !.retransmission_timer = time + c.retransmission_timeout]

in_window(recv, seq) == contains_in_window(recv.next, seq, recv.window)

\* A faulty open: it does not look at the state.
open_anywhere(c, time, isn) ==
    [c |-> [change_state(c, "SynSent") EXCEPT
                !.send.initial_seq = isn,
                !.send.unacked = isn,
                !.send.next = SeqAdd(isn, 1),
                !.retransmission_timer = time],
     ret |-> "Ok"]

open(c, time, isn) ==
    IF c.current \notin {"Closed", "Listen"}
    THEN [c |-> c, ret |-> "Illegal"]
    ELSE [c |-> [change_state(c, "SynSent") EXCEPT
                    !.send.initial_seq = isn,
                    !.send.unacked = isn,
                    !.send.next = SeqAdd(isn, 1),
                    !.retransmission_timer = time],
          ret |-> "Ok"]

-----------------------------------------------------------------------------
(* The ingress handler.                                                    *)

\* A faulty arrives_closed: its reset acknowledges the segment's first
\* sequence number, not what follows the segment.
arrives_closed_short(c, pkt, four) ==
    LET segment == pkt.segment IN
    IF segment.flags.rst
    THEN Returned(c, SignalsDefault, four)
    ELSE IF segment.ack_number.some
    THEN Returned(c,
            [SignalsDefault EXCEPT !.answer = Some(send_back(
                InnerRepr(FlagsRST, segment.ack_number.v, None, 0, None), segment))],
            four)
    ELSE Returned(c,
            [SignalsDefault EXCEPT !.answer = Some(send_back(
                InnerRepr(FlagsRST, 0, Some(segment.seq_number), 0, None), segment))],
            four)

arrives_closed(c, pkt, four) ==
    LET segment == pkt.segment IN
    IF segment.flags.rst
    THEN Returned(c, SignalsDefault, four)
    ELSE IF segment.ack_number.some
    THEN Returned(c,
            [SignalsDefault EXCEPT !.answer = Some(send_back(
                InnerRepr(FlagsRST, segment.ack_number.v, None, 0, None), segment))],
            four)
    ELSE Returned(c,
            [SignalsDefault EXCEPT !.answer = Some(send_back(
                InnerRepr(FlagsRST, 0,
                          Some(SeqAdd(segment.seq_number, repr_sequence_len(segment))),
                          0, None), segment))],
            four)

\* A faulty arrives_listen: it remaps the slot to the sender of a stray ACK
\* as well.
arrives_listen_remapping(c, pkt, four, isn) ==
    LET segment == pkt.segment
        new_four == [four EXCEPT !.remote = pkt.from]
    IN
    IF segment.flags.rst
    THEN Returned(c, SignalsDefault, four)
    ELSE IF segment.ack_number.some
    THEN Returned(c,
            [SignalsDefault EXCEPT !.answer = Some(send_back(
                InnerRepr(FlagsRST, segment.ack_number.v, None, 0, None), segment))],
            new_four)
    ELSE IF ~segment.flags.syn
    THEN Returned(c, SignalsDefault, four)
    ELSE
        LET c1 == [c EXCEPT !.recv.next = SeqAdd(segment.seq_number, 1),
                            !.recv.initial_seq = segment.seq_number,
                            !.send.next = SeqAdd(isn, 1),
                            !.send.unacked = isn,
                            !.send.initial_seq = isn]
            c2 == ack_all(c1)
        IN  Returned(c2,
                [SignalsDefault EXCEPT !.answer = Some(send_to(
                    InnerRepr(FlagsRST, isn, Some(c1.recv.next), c2.recv.window, None),
                    new_four))],
                new_four)

arrives_listen(c, pkt, four, isn) ==
    LET segment == pkt.segment IN
    IF segment.flags.rst
    THEN Returned(c, SignalsDefault, four)
    ELSE IF segment.ack_number.some
    THEN Returned(c,
            [SignalsDefault EXCEPT !.answer = Some(send_back(
                InnerRepr(FlagsRST, segment.ack_number.v, None, 0, None), segment))],
            four)
    ELSE IF ~segment.flags.syn
    THEN Returned(c, SignalsDefault, four)
    ELSE
        LET new_four == [four EXCEPT !.remote = pkt.from]
            c1 == [c EXCEPT !.recv.next = SeqAdd(segment.seq_number, 1),
                            !.recv.initial_seq = segment.seq_number,
                            !.send.next = SeqAdd(isn, 1),
                            !.send.unacked = isn,
                            !.send.initial_seq = isn]
            c2 == ack_all(c1)
        IN  Returned(c2,
                [SignalsDefault EXCEPT !.answer = Some(send_to(
                    InnerRepr(FlagsRST, isn, Some(c1.recv.next), c2.recv.window, None),
                    new_four))],
                new_four)

\* A faulty remote_reset_connection: it closes without signalling the reset.
remote_reset_connection_quiet(c, four) ==
    Returned(change_state(c, "Closed"),
             [SignalsDefault EXCEPT !.delete = TRUE],
             four)

remote_reset_connection(c, four) ==
    Returned(change_state(c, "Closed"),
             [SignalsDefault EXCEPT !.reset = TRUE, !.delete = TRUE],
             four)

\* A faulty signal_reset_connection: it answers with the reset and keeps the
\* slot.
signal_reset_connection_kept(c, four) ==
    LET c1 == change_state(c, "Closed")
        c2 == ack_all(c1)
    IN  Returned(c2,
            [SignalsDefault EXCEPT
                !.reset = TRUE,
                !.answer = Some(send_to(
                    InnerRepr(FlagsRST, c1.send.next, Some(c1.recv.next), 0, None),
                    four))],
            four)

signal_reset_connection(c, four) ==
    LET c1 == change_state(c, "Closed")
        c2 == ack_all(c1)
    IN  Returned(c2,
            [SignalsDefault EXCEPT
                !.reset = TRUE, !.delete = TRUE,
                !.answer = Some(send_to(
                    InnerRepr(FlagsRST, c1.send.next, Some(c1.recv.next), 0, None),
                    four))],
            four)

\* A faulty repr_ack_all: it acknowledges what was acknowledged before.
repr_ack_all_stale(c, remote) ==
    send_to(InnerRepr(NoFlags, c.send.next, Some(c.recv.acked), c.recv.window, None),
            remote)

repr_ack_all(c, remote) ==
    send_to(InnerRepr(NoFlags, c.send.next, Some(c.recv.next), c.recv.window, None),
            remote)

\* A faulty signal_ack_all: it acknowledges what was acknowledged before.
signal_ack_all_stale(c, four) ==
    Returned(ack_all(c),
             [SignalsDefault EXCEPT !.answer = Some(send_to(
                InnerRepr(NoFlags, c.send.next, Some(c.recv.acked), c.recv.window, None),
                four))],
             four)

signal_ack_all(c, four) ==
    Returned(ack_all(c),
             [SignalsDefault EXCEPT !.answer = Some(repr_ack_all(c, four))],
             four)

segment_ack_all(c, remote) == Segment(repr_ack_all(c, remote), 0, 0)

\* A faulty send_open: its SYN never carries an acknowledgement.
send_open_bare(c, ack, to) ==
    send_to(InnerRepr(FlagsSYN, c.send.initial_seq, None, 0, Some(c.send.window_scale)),
            to)

\* send_open builds the SYN; with ack it also runs ack_all.
send_open(c, ack, to) ==
    send_to(InnerRepr(FlagsSYN, c.send.initial_seq,
                      IF ack THEN Some(c.recv.next) ELSE None,
                      0, Some(c.send.window_scale)),
            to)

\* A faulty ingress_acceptable: it looks at the first byte of a segment only.
ingress_acceptable_first(c, repr) ==
    IF repr.payload_len = 0 /\ c.recv.window = 0
    THEN repr.seq_number = c.recv.next
    ELSE IF repr.payload_len = 0
    THEN in_window(c.recv, repr.seq_number)
    ELSE IF c.recv.window = 0
    THEN FALSE
    ELSE in_window(c.recv, repr.seq_number)

ingress_acceptable(c, repr) ==
    IF repr.payload_len = 0 /\ c.recv.window = 0
    THEN repr.seq_number = c.recv.next
    ELSE IF repr.payload_len = 0
    THEN in_window(c.recv, repr.seq_number)
    ELSE IF c.recv.window = 0
    THEN FALSE
    ELSE \/ in_window(c.recv, repr.seq_number)
         \/ in_window(c.recv, SeqSub(SeqAdd(repr.seq_number, repr.payload_len), 1))

window_update(c, new_bytes) ==
    LET flow == c.flow_control IN
    [c EXCEPT !.flow_control.congestion_window =
        IF c.duplicate_ack > 0
        THEN flow.ssthresh
        ELSE IF flow.congestion_window <= flow.ssthresh
        THEN Min(flow.congestion_window * 2, U32Max)
        ELSE Min(flow.congestion_window + Min(c.sender_maximum_segment_size, new_bytes),
                 U32Max)]

\* A faulty incoming_ack: an acknowledgement of send.unacked counts as old.
incoming_ack_lax(send, seq) ==
    IF SeqLe(seq, send.unacked) THEN [update |-> "TooLow", new_bytes |-> 0, send |-> send]
    ELSE IF SeqLe(seq, send.next)
    THEN [update |-> "Updated", new_bytes |-> SeqDiff(seq, send.unacked),
          send |-> [send EXCEPT !.unacked = seq]]
    ELSE [update |-> "Unsent", new_bytes |-> 0, send |-> send]

\* Send::incoming_ack: the classification, and send.unacked after it.
incoming_ack(send, seq) ==
    IF SeqLt(seq, send.unacked) THEN [update |-> "TooLow", new_bytes |-> 0, send |-> send]
    ELSE IF seq = send.unacked THEN [update |-> "Duplicate", new_bytes |-> 0, send |-> send]
    ELSE IF SeqLe(seq, send.next)
    THEN [update |-> "Updated", new_bytes |-> SeqDiff(seq, send.unacked),
          send |-> [send EXCEPT !.unacked = seq]]
    ELSE [update |-> "Unsent", new_bytes |-> 0, send |-> send]

\* A faulty set_recv_ack: a FIN in FinWait leads to TimeWait whether or not
\* our FIN was acknowledged.
set_recv_ack_eager(c, meta) ==
    LET end == sequence_end(meta)
        acked_all == c.send.next = c.send.unacked
        c1 == IF c.current \in {"Established", "SynReceived"} /\ meta.fin
              THEN change_state(c, "CloseWait")
              ELSE IF \/ (c.current = "FinWait" /\ meta.fin)
                      \/ (c.current = "Closing" /\ acked_all)
              THEN [change_state(c, "TimeWait") EXCEPT
                        !.retransmission_timer =
                            meta.timestamp + 2 * c.retransmission_timeout]
              ELSE c
    IN  [c1 EXCEPT !.recv.next = end,
                   !.ack_timer = ExpMin(c1.ack_timer,
                                        When(meta.timestamp + c1.ack_timeout))]

\* A faulty set_recv_ack: it advances recv.next by the segment's length.
set_recv_ack_adding(c, meta) ==
    LET acked_all == c.send.next = c.send.unacked
        c1 == IF c.current \in {"Established", "SynReceived"} /\ meta.fin
              THEN change_state(c, "CloseWait")
              ELSE IF \/ (c.current = "FinWait" /\ meta.fin /\ acked_all)
                      \/ (c.current = "Closing" /\ acked_all)
              THEN [change_state(c, "TimeWait") EXCEPT
                        !.retransmission_timer =
                            meta.timestamp + 2 * c.retransmission_timeout]
              ELSE IF c.current = "FinWait" /\ meta.fin /\ ~acked_all
              THEN change_state(c, "Closing")
              ELSE c
    IN  [c1 EXCEPT !.recv.next = SeqAdd(c.recv.next, ReceivedSegment_sequence_len(meta)),
                   !.ack_timer = ExpMin(c1.ack_timer,
                                        When(meta.timestamp + c1.ack_timeout))]

set_recv_ack(c, meta) ==
    LET end == sequence_end(meta)
        acked_all == c.send.next = c.send.unacked
        c1 == IF c.current \in {"Established", "SynReceived"} /\ meta.fin
              THEN change_state(c, "CloseWait")
              ELSE IF \/ (c.current = "FinWait" /\ meta.fin /\ acked_all)
                      \/ (c.current = "Closing" /\ acked_all)
              THEN [change_state(c, "TimeWait") EXCEPT
                        !.retransmission_timer =
                            meta.timestamp + 2 * c.retransmission_timeout]
              ELSE IF c.current = "FinWait" /\ meta.fin /\ ~acked_all
              THEN change_state(c, "Closing")
              ELSE c
    IN  [c1 EXCEPT !.recv.next = end,
                   !.ack_timer = ExpMin(c1.ack_timer,
                                        When(meta.timestamp + c1.ack_timeout))]

\* A faulty arrives_syn_sent: it takes the peer's MSS option as it comes.
arrives_syn_sent_unclamped(c, pkt, four) ==
    LET segment == pkt.segment
        ack == segment.ack_number
    IN
    IF ack.some /\ (SeqLe(ack.v, c.send.initial_seq) \/ SeqGt(ack.v, c.send.next))
    THEN IF segment.flags.rst
         THEN Returned(c, SignalsDefault, four)
         ELSE Returned(c,
                [SignalsDefault EXCEPT !.answer = Some(send_back(
                    InnerRepr(FlagsRST, ack.v, Some(segment.seq_number), 0, None),
                    segment))],
                four)
    ELSE IF segment.flags.rst
    THEN IF ~ack.some
         THEN Returned(c, SignalsDefault, four)
         ELSE remote_reset_connection(c, four)
    ELSE IF ~segment.flags.syn
    THEN Returned(c, SignalsDefault, four)
    ELSE
        LET mss == IF segment.max_seg_size.some THEN segment.max_seg_size.v
                   ELSE DefaultMss
            c1 == [c EXCEPT
                    !.recv.initial_seq = segment.seq_number,
                    !.recv.next = SeqAdd(segment.seq_number, 1),
                    !.send.window = segment.window_len,
                    !.send.window_scale =
                        IF segment.window_scale.some THEN segment.window_scale.v ELSE 0,
                    !.sender_maximum_segment_size = mss,
                    !.receiver_maximum_segment_size = mss,
                    !.send.unacked = IF ack.some THEN ack.v ELSE c.send.unacked]
        IN  IF c1.send.unacked = c1.send.initial_seq
            THEN LET c2 == change_state(c1, "SynReceived") IN
                 Returned(ack_all(c2),
                          [SignalsDefault EXCEPT !.answer = Some(send_open(c2, TRUE, four))],
                          four)
            ELSE Returned([change_state(c1, "Established") EXCEPT
                                !.ack_timer = When(pkt.time)],
                          SignalsDefault, four)

arrives_syn_sent(c, pkt, four) ==
    LET segment == pkt.segment
        ack == segment.ack_number
    IN
    IF ack.some /\ (SeqLe(ack.v, c.send.initial_seq) \/ SeqGt(ack.v, c.send.next))
    THEN IF segment.flags.rst
         THEN Returned(c, SignalsDefault, four)
         ELSE Returned(c,
                [SignalsDefault EXCEPT !.answer = Some(send_back(
                    InnerRepr(FlagsRST, ack.v, Some(segment.seq_number), 0, None),
                    segment))],
                four)
    ELSE IF segment.flags.rst
    THEN IF ~ack.some
         THEN Returned(c, SignalsDefault, four)
         ELSE remote_reset_connection(c, four)
    ELSE IF ~segment.flags.syn
    THEN Returned(c, SignalsDefault, four)
    ELSE
        LET mss == Max(IF segment.max_seg_size.some THEN segment.max_seg_size.v
                       ELSE DefaultMss, DefaultMss)
            c1 == [c EXCEPT
                    !.recv.initial_seq = segment.seq_number,
                    !.recv.next = SeqAdd(segment.seq_number, 1),
                    !.send.window = segment.window_len,
                    !.send.window_scale =
                        IF segment.window_scale.some THEN segment.window_scale.v ELSE 0,
                    !.sender_maximum_segment_size = mss,
                    !.receiver_maximum_segment_size = mss,
                    !.send.unacked = IF ack.some THEN ack.v ELSE c.send.unacked]
        IN  IF c1.send.unacked = c1.send.initial_seq
            THEN LET c2 == change_state(c1, "SynReceived") IN
                 Returned(ack_all(c2),
                          [SignalsDefault EXCEPT !.answer = Some(send_open(c2, TRUE, four))],
                          four)
            ELSE Returned([change_state(c1, "Established") EXCEPT
                                !.ack_timer = When(pkt.time)],
                          SignalsDefault, four)

\* A faulty arrives_established: it commits the data of a segment itself,
\* before the caller has stored it.
arrives_established_committing(c, pkt, four, debug) ==
    LET segment == pkt.segment
        acceptable == ingress_acceptable(c, segment)
    IN
    IF ~acceptable
    THEN IF segment.flags.rst
         THEN remote_reset_connection(c, four)
         ELSE signal_ack_all(c, four)
    ELSE IF segment.flags.syn
    THEN IF debug /\ ~in_window(c.recv, segment.seq_number)
         THEN Panics(c, four, "debug_assert in arrives_established")
         ELSE signal_reset_connection(c, four)
    ELSE IF ~segment.ack_number.some
    THEN Returned(c, SignalsDefault, four)
    ELSE
        LET upd == incoming_ack(c.send, segment.ack_number.v)
            c0 == [c EXCEPT !.send = upd.send]
            c1 == CASE upd.update = "Duplicate" ->
                        [c0 EXCEPT !.duplicate_ack = Min(c0.duplicate_ack + 1, U8Max)]
                    [] upd.update = "Updated" ->
                        LET c1a == IF c0.duplicate_ack > 0
                                   THEN [c0 EXCEPT
                                            !.flow_control.congestion_window =
                                                c0.flow_control.ssthresh,
                                            !.duplicate_ack = 0]
                                   ELSE c0
                            c1b == [c1a EXCEPT !.send.window = segment.window_len]
                        IN  window_update(c1b, upd.new_bytes)
                    [] OTHER -> c0
            segment_ack == [syn |-> segment.flags.syn,
                            fin |-> segment.flags.fin,
                            data_len |-> segment.payload_len,
                            begin |-> segment.seq_number,
                            timestamp |-> pkt.time]
        IN  IF upd.update = "Unsent"
            THEN signal_ack_all(c, four)
            ELSE IF segment_ack.data_len = 0
            THEN Returned(set_recv_ack(c1, segment_ack), SignalsDefault, four)
            ELSE Returned(set_recv_ack(c1, segment_ack),
                          [SignalsDefault EXCEPT !.receive = Some(segment_ack)], four)

arrives_established(c, pkt, four, debug) ==
    LET segment == pkt.segment
        acceptable == ingress_acceptable(c, segment)
    IN
    IF ~acceptable
    THEN IF segment.flags.rst
         THEN remote_reset_connection(c, four)
         ELSE signal_ack_all(c, four)
    ELSE IF segment.flags.syn
    THEN IF debug /\ ~in_window(c.recv, segment.seq_number)
         THEN Panics(c, four, "debug_assert in arrives_established")
         ELSE signal_reset_connection(c, four)
    ELSE IF ~segment.ack_number.some
    THEN Returned(c, SignalsDefault, four)
    ELSE
        LET upd == incoming_ack(c.send, segment.ack_number.v)
            c0 == [c EXCEPT !.send = upd.send]
            c1 == CASE upd.update = "Duplicate" ->
                        [c0 EXCEPT !.duplicate_ack = Min(c0.duplicate_ack + 1, U8Max)]
                    [] upd.update = "Updated" ->
                        LET c1a == IF c0.duplicate_ack > 0
                                   THEN [c0 EXCEPT
                                            !.flow_control.congestion_window =
                                                c0.flow_control.ssthresh,
                                            !.duplicate_ack = 0]
                                   ELSE c0
                            c1b == [c1a EXCEPT !.send.window = segment.window_len]
                        IN  window_update(c1b, upd.new_bytes)
                    [] OTHER -> c0
            segment_ack == [syn |-> segment.flags.syn,
                            fin |-> segment.flags.fin,
                            data_len |-> segment.payload_len,
                            begin |-> segment.seq_number,
                            timestamp |-> pkt.time]
        IN  IF upd.update = "Unsent"
            THEN signal_ack_all(c, four)
            ELSE IF segment_ack.data_len = 0
            THEN Returned(set_recv_ack(c1, segment_ack), SignalsDefault, four)
            ELSE Returned(c1, [SignalsDefault EXCEPT !.receive = Some(segment_ack)], four)

arrives(c, pkt, four, isn, debug) ==
    CASE c.current = "Closed" -> arrives_closed(c, pkt, four)
      [] c.current = "Listen" -> arrives_listen(c, pkt, four, isn)
      [] c.current = "SynSent" -> arrives_syn_sent(c, pkt, four)
      [] c.current \in {"Established", "FinWait"} -> arrives_established(c, pkt, four, debug)
      [] OTHER -> Panics(c, four, "unimplemented in arrives")

-----------------------------------------------------------------------------
(* The egress selector.                                                    *)

ReturnedOut(c, ret, four) == [c |-> c, ret |-> ret, four |-> four, panic |-> ""]
PanicsOut(c, four, what) == [c |-> c, ret |-> None, four |-> four, panic |-> what]

\* u32 << u8.  A shift by 32 or more panics in a build with overflow checks and
\* shifts by the amount's low five bits in one without.
ShiftOverflows(send) == send.window_scale >= 32

\* A faulty Send::window: it forgets the scale.
send_window_unscaled(send) == send.window

\* Send::window: u32::from(window) << window_scale, the low 32 bits of it.
send_window(send) ==
    LET sh == send.window_scale % 32 IN
    IF sh <= 15
    THEN send.window * (2 ^ sh)
    ELSE (send.window % (2 ^ (32 - sh))) * (2 ^ sh)

\* Send::in_flight, where its assertion holds.
in_flight(send) == SeqDiff(send.next, send.unacked)

restart_window(c) == Min(c.flow_control.congestion_window, c.send.window)

\* A faulty segment_retransmit: it does not limit the segment to the SMSS.
segment_retransmit_unbounded(c, avail, tuple, debug) ==
    IF ~SeqLe(c.send.unacked, c.send.next)
    THEN PanicsOut(c, tuple, "assert in Send::in_flight")
    ELSE IF in_flight(c.send) = 0
    THEN ReturnedOut(c, None, tuple)
    ELSE IF debug /\ ShiftOverflows(c.send)
    THEN PanicsOut(c, tuple, "shift overflow in Send::window")
    ELSE
        LET byte_window == avail.total
            to_send == Min(send_window(c.send), byte_window)
            is_fin == avail.fin /\ to_send = avail.total
            repr == [repr_ack_all(c, tuple) EXCEPT
                        !.flags.fin = is_fin,
                        !.seq_number = c.send.unacked,
                        !.payload_len = to_send % 65536]
        IN  IF to_send = 0
            THEN ReturnedOut(c, None, tuple)
            ELSE ReturnedOut(ack_all(c), Some(Segment(repr, 0, to_send)), tuple)

segment_retransmit(c, avail, tuple, debug) ==
    IF ~SeqLe(c.send.unacked, c.send.next)
    THEN PanicsOut(c, tuple, "assert in Send::in_flight")
    ELSE IF in_flight(c.send) = 0
    THEN ReturnedOut(c, None, tuple)
    ELSE IF debug /\ ShiftOverflows(c.send)
    THEN PanicsOut(c, tuple, "shift overflow in Send::window")
    ELSE
        LET byte_window == avail.total
            to_send == Min(Min(send_window(c.send), c.sender_maximum_segment_size),
                           byte_window)
            is_fin == avail.fin /\ to_send = avail.total
            repr == [repr_ack_all(c, tuple) EXCEPT
                        !.flags.fin = is_fin,
                        !.seq_number = c.send.unacked,
                        !.payload_len = to_send % 65536]
        IN  IF to_send = 0
            THEN ReturnedOut(c, None, tuple)
            ELSE ReturnedOut(ack_all(c), Some(Segment(repr, 0, to_send)), tuple)

fast_retransmit(c, avail, time, tuple, debug) ==
    segment_retransmit(c, avail, tuple, debug)

timeout_retransmit(c, avail, time, tuple, debug) ==
    segment_retransmit(rearm_retransmission_timer(c, time), avail, tuple, debug)

select_send_segment(c, avail, time, tuple, debug) ==
    LET byte_window == avail.total
        last_time == Max(c.recv.last_time, c.send.last_time)
        c0 == IF time > last_time + c.restart_timeout
              THEN [c EXCEPT !.flow_control.congestion_window = restart_window(c)]
              ELSE c
    IN
    IF c0.duplicate_ack >= 2
    THEN fast_retransmit(c0, avail, time, tuple, debug)
    ELSE IF c0.retransmission_timer < time
    THEN timeout_retransmit(c0, avail, time, tuple, debug)
    ELSE IF debug /\ ShiftOverflows(c0.send)
    THEN PanicsOut(c0, tuple, "shift overflow in Send::window")
    ELSE IF ~SeqLe(c0.send.unacked, c0.send.next)
    THEN PanicsOut(c0, tuple, "assert in Send::in_flight")
    ELSE
        LET window == send_window(c0.send)
            sent == in_flight(c0.send)
            max_sent == Min(window, byte_window)
            end == Min(sent + c0.sender_maximum_segment_size, max_sent)
            is_fin == avail.fin /\ end = avail.total
            c1 == IF is_fin /\ c0.current = "Established"
                  THEN change_state(c0, "FinWait")
                  ELSE IF is_fin /\ c0.current = "CloseWait"
                  THEN change_state(c0, "LastAck")
                  ELSE c0
            repr == [repr_ack_all(c1, tuple) EXCEPT
                        !.payload_len = (end - sent) % 65536,
                        !.flags = IF is_fin THEN FlagsFIN ELSE @]
            c2 == [ack_all(c1) EXCEPT
                        !.send.next = SeqAdd(c1.send.next, (end - sent) + BoolToInt(is_fin))]
        IN  IF sent < max_sent
            THEN IF ~(end - sent > 0)
                 THEN PanicsOut(c0, tuple, "assert range.len() > 0")
                 ELSE ReturnedOut(c2, Some(Segment(repr, sent, end)), tuple)
            ELSE IF should_ack(c0) \/ ExpLe(c0.ack_timer, When(time))
            THEN LET c3 == rearm_ack_timer(c0, time) IN
                 ReturnedOut(ack_all(c3), Some(segment_ack_all(c3, tuple)), tuple)
            ELSE ReturnedOut(c0, None, tuple)

\* A faulty select_syn_retransmit: it waits until the timer has passed.
select_syn_retransmit_late(c, time, tuple) ==
    IF c.retransmission_timer >= time
    THEN ReturnedOut(c, None, tuple)
    ELSE
        LET ack == c.current = "SynReceived"
            c1 == rearm_retransmission_timer(c, time)
        IN  ReturnedOut(IF ack THEN ack_all(c1) ELSE c1,
                        Some(Segment(send_open(c1, ack, tuple), 0, 0)), tuple)

select_syn_retransmit(c, time, tuple) ==
    IF c.retransmission_timer > time
    THEN ReturnedOut(c, None, tuple)
    ELSE
        LET ack == c.current = "SynReceived"
            c1 == rearm_retransmission_timer(c, time)
        IN  ReturnedOut(IF ack THEN ack_all(c1) ELSE c1,
                        Some(Segment(send_open(c1, ack, tuple), 0, 0)), tuple)

ensure_closed_ack(c, tuple) ==
    IF c.recv.acked = c.recv.next
    THEN ReturnedOut(c, None, tuple)
    ELSE ReturnedOut(ack_all(c), Some(segment_ack_all(c, tuple)), tuple)

\* A faulty ensure_time_wait: it does not wait for the timer.
ensure_time_wait_early(c, time, tuple) ==
    LET r == ensure_closed_ack(c, tuple) IN
    IF r.ret.some
    THEN [r EXCEPT !.ret = [segment |-> r.ret, delete |-> FALSE]]
    ELSE [r EXCEPT !.ret = [delete |-> TRUE, segment |-> None]]

ensure_time_wait(c, time, tuple) ==
    LET r == ensure_closed_ack(c, tuple) IN
    IF r.ret.some
    THEN [r EXCEPT !.ret = [segment |-> r.ret, delete |-> FALSE]]
    ELSE [r EXCEPT !.ret = [delete |-> time >= c.retransmission_timer, segment |-> None]]

\* Option<Segment> -> OutSignals: .map(OutSignals::segment).unwrap_or_else(OutSignals::none)
ToOutSignals(r) ==
    IF r.panic # "" THEN [r EXCEPT !.ret = OutSignals_none]
    ELSE [r EXCEPT !.ret = IF r.ret.some THEN OutSignals_segment(r.ret.v)
                           ELSE OutSignals_none]

\* available.total.min(self.send.next - self.send.unacked), the difference
\* being (next - unacked) mod 2^32 as a usize.
CapToInFlight(total, send) ==
    LET d == SeqDiff(send.next, send.unacked) IN
    IF d < 0 THEN total ELSE Min(total, d)

next_send_segment(c, avail, time, tuple, debug) ==
    CASE c.current \in {"Established", "CloseWait"} ->
            ToOutSignals(select_send_segment(c, avail, time, tuple, debug))
      [] c.current \in {"FinWait", "Closing", "LastAck"} ->
            ToOutSignals(select_send_segment(c,
                [avail EXCEPT !.total = CapToInFlight(avail.total, c.send)],
                time, tuple, debug))
      [] c.current = "Closed" -> ToOutSignals(ensure_closed_ack(c, tuple))
      [] c.current = "TimeWait" -> ensure_time_wait(c, time, tuple)
      [] c.current \in {"SynSent", "SynReceived"} ->
            ToOutSignals(select_syn_retransmit(c, time, tuple))
      [] OTHER -> ReturnedOut(c, OutSignals_none, tuple)

\* Receive::update_window: the window scaled down, rounded up, capped at u16::MAX.
update_window(recv, window) ==
    LET max == 65535 * (2 ^ recv.window_scale)
        capped == Min(window, max)
        scaled_down == (capped \div (2 ^ recv.window_scale))
                       + BoolToInt(capped % (2 ^ recv.window_scale) # 0)
    IN  [recv EXCEPT !.window = scaled_down]

-----------------------------------------------------------------------------
(* The caller: the values it passes in.                                    *)

\* The slot's four-tuple, as in tests::resent_syn.
Tuple0 ==
    [local |-> "192.0.10.1", remote |-> "192.0.10.2", local_port |-> 80,
     remote_port |-> 80]

Addresses == {"192.0.10.2", "192.0.10.3"}

\* The initial sequence number EntryKey::initial_seq_num hands out: 2^32 - 1,
\* whose successor wraps to 0.
IsnValues == {-1}

WindowValues == {0, 1000}
PayloadValues == {0, 2}

FlagValues == [syn : BOOLEAN, fin : BOOLEAN, rst : BOOLEAN]

\* The slot and its peer.  The slot's creator writes the timeouts into the
\* zeroed connection and sizes the receive window; the peer has an initial
\* sequence number (peer_isn) and puts <<window_len, window_scale,
\* max_seg_size>> (syn_options) into its SYN.  One slot is the zeroed
\* connection as it is, with a peer offering no window or a large one; the
\* other has timeouts and a receive window, with a peer at 2^32 - 2 offering
\* a small window, scaled by 1 or by an amount past 31.
ProfileValues ==
    {[retransmission_timeout |-> 0, ack_timeout |-> 0, window |-> 0,
      peer_isn |-> 7,
      syn_options |-> {<<0, None, None>>, <<1000, None, Some(100)>>}],
     [retransmission_timeout |-> 1, ack_timeout |-> 1, window |-> 2,
      peer_isn |-> -2,
      syn_options |-> {<<2, Some(1), Some(1000)>>, <<2, Some(200), None>>}]}

\* What the send buffer may hold at a poll: nothing, a little, or more than a
\* segment carries.  The model's caller polls with a little to send.
AvailableValues == [fin : BOOLEAN, total : {0, 2, 600}]
PolledValues == {a \in AvailableValues : a.total = 2}

MkSegment(flags, seq, ack, window_len, window_scale, max_seg_size, payload_len) ==
    [src_port |-> Tuple0.remote_port, dst_port |-> Tuple0.local_port,
     seq_number |-> seq, flags |-> flags, ack_number |-> ack,
     window_len |-> window_len, window_scale |-> window_scale,
     max_seg_size |-> max_seg_size, payload_len |-> payload_len]

\* The acknowledgement numbers a peer sends: none, below, at and above what is
\* in flight.
AckCandidates(c) ==
    {None, Some(SeqSub(c.send.unacked, 1)), Some(c.send.unacked),
     Some(c.send.next), Some(SeqAdd(c.send.next, 1))}

\* The sequence numbers a peer sends to a synchronized connection: around
\* recv.next.
SeqCandidates(c) ==
    {SeqSub(c.recv.next, 1), c.recv.next, SeqAdd(c.recv.next, 2)}

\* The segments that may arrive in a state.  A field the state's handler never
\* reads is held at one value (0, None, the slot's remote address).
SegmentsFor(c, p) ==
    CASE c.current = "Closed" ->
            {MkSegment(fl, p.peer_isn, a, 0, None, None, len) :
                fl \in FlagValues, a \in AckCandidates(c), len \in PayloadValues}
      [] c.current = "Listen" ->
            {MkSegment(fl, p.peer_isn, a, 0, None, None, 0) :
                fl \in FlagValues, a \in AckCandidates(c)}
      [] c.current = "SynSent" ->
            {MkSegment(fl, p.peer_isn, a, 0, None, None, 0) :
                fl \in {f \in FlagValues : f.rst \/ ~f.syn}, a \in AckCandidates(c)}
            \cup
            {MkSegment(fl, p.peer_isn, a, x[1], x[2], x[3], 0) :
                fl \in {f \in FlagValues : f.syn /\ ~f.rst}, a \in AckCandidates(c),
                x \in p.syn_options}
      [] OTHER ->
            {MkSegment(fl, s, a, w, None, None, len) :
                fl \in FlagValues, s \in SeqCandidates(c), a \in AckCandidates(c),
                w \in WindowValues, len \in PayloadValues}

\* debug_assert! and the overflow checks are compiled in or not.  The build
\* makes a difference only where the asserted condition can fail.
BuildsFor(c) == IF ShiftOverflows(c.send) THEN BOOLEAN ELSE {FALSE}
BuildsOn(c, segment) ==
    IF c.current \in {"Established", "FinWait"} /\ segment.flags.syn
    THEN BOOLEAN ELSE {FALSE}

\* The segments the peer of the model sends to a synchronized connection:
\* every flag combination on each of these <<seq, ack, window, payload>>.
ShapesFor(c) ==
    {<<c.recv.next, Some(c.send.unacked), 0, 0>>,           \* a repeated ACK
     <<c.recv.next, Some(c.send.next), 1000, 0>>,           \* an ACK of all sent
     <<c.recv.next, Some(c.send.next), 0, 2>>,              \* data in order
     <<SeqSub(c.recv.next, 1), Some(c.send.unacked), 0, 2>>, \* data overlapping
     <<SeqAdd(c.recv.next, 2), Some(c.send.unacked), 0, 2>>, \* data after a gap
     <<c.recv.next, None, 0, 0>>,                           \* no ACK
     <<c.recv.next, Some(SeqAdd(c.send.next, 1)), 0, 0>>,   \* an ACK of the unsent
     <<c.recv.next, Some(SeqSub(c.send.unacked, 1)), 0, 2>>} \* an old ACK

\* The segments that arrive in the model: all of SegmentsFor before the
\* connection is synchronized, the shapes above after.
ArrivingFor(c, p) ==
    IF c.current \in {"Closed", "Listen", "SynSent"}
    THEN SegmentsFor(c, p)
    ELSE {MkSegment(fl, x[1], x[2], x[3], None, None, x[4]) :
            fl \in FlagValues, x \in ShapesFor(c)}

\* The peer of the model sets at most one of SYN, FIN and RST in a segment.
\* A handler that reads two of the flags returns at the first it tests.
PeerSends(c, p) ==
    {x \in ArrivingFor(c, p) :
        BoolToInt(x.flags.syn) + BoolToInt(x.flags.fin) + BoolToInt(x.flags.rst) <= 1}

\* enum State.
States ==
    {"Closed", "Listen", "SynSent", "SynReceived", "Established", "FinWait",
     "Closing", "TimeWait", "CloseWait", "LastAck"}

\* The ReceivedSegment values a caller passes to set_recv_ack: what arrives
\* may have returned for a segment around recv.next, stamped now or earlier.
MetaValues(c) ==
    [syn : BOOLEAN, fin : BOOLEAN, data_len : PayloadValues,
     begin : SeqCandidates(c), timestamp : {0, now}]

\* Receive windows, sequence numbers around recv.next and payload lengths to
\* probe the acceptability test with.
ProbeWindows == 0..3
ProbeSeqs(c) == {SeqAdd(SeqSub(c.recv.next, 2), k) : k \in 0..6}
ProbeLens == 0..3

\* The times a caller polls at: the clock, and up to two timeouts after it.
PollTimes == {now, now + 1, now + 2}

\* Flow is a pub field of a pub struct: the slot's owner writes ssthresh
\* ("Set to MAX initially") and the congestion window into the connection.
FlowValues == [ssthresh : {0, 4}, congestion_window : {0, 3, 8}]

\* Receive::window_scale is a pub field no handler writes: the slot's owner
\* sets the scale it advertises.
RecvScales == {0, 1}

FromFor(c) == IF c.current = "Listen" THEN Addresses ELSE {Tuple0.remote}

-----------------------------------------------------------------------------
(* The state machine.                                                      *)

Init ==
    /\ profile \in ProfileValues
    /\ conn = [zeroed EXCEPT
                    !.retransmission_timeout = profile.retransmission_timeout,
                    !.ack_timeout = profile.ack_timeout,
                    !.recv = update_window(zeroed.recv, profile.window)]
    /\ four_tuple = Tuple0
    /\ now = 0
    /\ pending = None
    /\ last = "zeroed"
    /\ prior = "Closed"
    /\ signals = SignalsDefault
    /\ out = OutSignals_none
    /\ open_result = "Ok"
    /\ panicked = ""
    /\ deleted = FALSE

Running == panicked = "" /\ ~deleted

\* The caller hands the segment arrives returned to set_recv_ack before it
\* calls anything else.
Idle == Running /\ ~pending.some

\* The handlers are called while the sequence space used stays in the bounds.
InBounds(c) ==
    /\ c.duplicate_ack <= MaxDupAck
    /\ SeqDiff(c.send.next, c.send.initial_seq) <= MaxSendSeq
    /\ c.current \notin {"Closed", "Listen", "SynSent"} =>
            /\ SeqDiff(c.recv.next, c.recv.initial_seq) <= MaxRecvSeq
            /\ SeqDiff(c.recv.next, c.recv.initial_seq) >= 0

\* The clock advances between handler calls.
Tick ==
    /\ Idle
    /\ now < MaxTime
    /\ now' = now + 1
    /\ UNCHANGED <<conn, four_tuple, profile, pending, last, prior,
                   signals, out, open_result, panicked, deleted>>

\* Endpoint::listen: the slot of a listener holds a connection in Listen.
Listen ==
    /\ Idle
    /\ last = "zeroed"
    /\ conn' = change_state(conn, "Listen")
    /\ last' = "listen"
    /\ prior' = conn.current
    /\ signals' = SignalsDefault /\ out' = OutSignals_none
    /\ open_result' = "Ok"
    /\ UNCHANGED <<four_tuple, profile, now, pending, panicked, deleted>>

Open ==
    /\ Idle
    /\ \E isn \in IsnValues :
          \E r \in {open(conn, now, isn)} :
          /\ conn' = r.c
          /\ open_result' = r.ret
    /\ last' = "open"
    /\ prior' = conn.current
    /\ signals' = SignalsDefault /\ out' = OutSignals_none
    /\ UNCHANGED <<four_tuple, profile, now, pending, panicked, deleted>>

Arrives ==
    /\ Idle
    /\ \E segment \in PeerSends(conn, profile), from \in FromFor(conn), isn \in IsnValues :
       \E debug \in BuildsOn(conn, segment) :
          \E r \in {arrives(conn, [segment |-> segment, from |-> from, time |-> now],
                              four_tuple, isn, debug)} :
              /\ InBounds(r.c)
              /\ conn' = r.c
              /\ four_tuple' = r.four
              /\ signals' = r.ret
              /\ pending' = r.ret.receive
              /\ panicked' = r.panic
              /\ deleted' = r.ret.delete
    /\ last' = "arrives"
    /\ prior' = conn.current
    /\ out' = OutSignals_none
    /\ open_result' = "Ok"
    /\ UNCHANGED <<profile, now>>

SetRecvAck ==
    /\ Running
    /\ pending.some
    /\ InBounds(set_recv_ack(conn, pending.v))
    /\ conn' = set_recv_ack(conn, pending.v)
    /\ pending' = None
    /\ last' = "set_recv_ack"
    /\ prior' = conn.current
    /\ signals' = SignalsDefault /\ out' = OutSignals_none
    /\ open_result' = "Ok"
    /\ UNCHANGED <<four_tuple, profile, now, panicked, deleted>>

NextSendSegment ==
    /\ Idle
    /\ \E avail \in PolledValues, debug \in BuildsFor(conn) :
          \E r \in {next_send_segment(conn, avail, now, four_tuple, debug)} :
              /\ InBounds(r.c)
              /\ conn' = r.c
              /\ out' = r.ret
              /\ panicked' = r.panic
              /\ deleted' = r.ret.delete
    /\ last' = "next_send_segment"
    /\ prior' = conn.current
    /\ signals' = SignalsDefault
    /\ open_result' = "Ok"
    /\ UNCHANGED <<four_tuple, profile, now, pending>>

Next ==
    \/ Tick
    \/ Listen
    \/ Open
    \/ Arrives
    \/ SetRecvAck
    \/ NextSendSegment

Spec == Init /\ [][Next]_vars

-----------------------------------------------------------------------------
(* Properties.                                                             *)

Synchronized ==
    {"SynReceived", "Established", "FinWait", "Closing", "CloseWait", "LastAck",
     "TimeWait"}

\* The packet a segment arrives in, at the model's clock, from the slot's peer.
PacketOf(segment) == [segment |-> segment, from |-> four_tuple.remote, time |-> now]

\* C1: in every reachable state send.unacked <= send.next and
\* recv.acked <= recv.next hold in windowed (mod 2^32) ordering, so the assert
\* in Send::in_flight never fires.
C1_WindowedOrder ==
    /\ SeqLe(conn.send.unacked, conn.send.next)
    /\ SeqLe(conn.recv.acked, conn.recv.next)
    /\ panicked # "assert in Send::in_flight"

\* C2: in every reachable state arrives returns a Signals value for every
\* arriving segment; it never panics.
C2_ArrivesReturns ==
    Idle => \A segment \in ArrivingFor(conn, profile), from \in FromFor(conn),
               isn \in IsnValues :
               \A debug \in BuildsOn(conn, segment) :
                  arrives(conn, [segment |-> segment, from |-> from, time |-> now],
                          four_tuple, isn, debug).panic = ""

\* C3: in every synchronized state a segment with RST, acceptable or not,
\* makes arrives return reset = true and delete = true and leaves the
\* connection Closed.
C3_RstResets ==
    (Idle /\ conn.current \in Synchronized) =>
        \A segment \in {x \in ArrivingFor(conn, profile) : x.flags.rst} :
            \A debug \in BuildsOn(conn, segment) :
                \E r \in {arrives(conn, PacketOf(segment), four_tuple, -1, debug)} :
                    /\ r.panic = ""
                    /\ r.ret.reset /\ r.ret.delete
                    /\ r.c.current = "Closed"

\* C4: a connection in Listen that received a SYN and answered it, and then
\* receives the peer's ACK of that answer (ack = ISS + 1), ends in Established
\* with send.unacked = ISS + 1 and recv.next = peer_ISS + 1.
C4_PassiveOpen ==
    (/\ Idle /\ last = "arrives" /\ prior = "Listen"
     /\ signals.answer.some /\ signals.answer.v.ack_number.some) =>
        \A isn \in IsnValues, window \in WindowValues :
            \E r \in {arrives(conn,
                              PacketOf(MkSegment(NoFlags, SeqAdd(profile.peer_isn, 1),
                                                 Some(SeqAdd(conn.send.initial_seq, 1)),
                                                 window, None, None, 0)),
                              four_tuple, isn, FALSE)} :
                /\ r.panic = ""
                /\ r.c.current = "Established"
                /\ r.c.send.unacked = SeqAdd(conn.send.initial_seq, 1)
                /\ r.c.recv.next = SeqAdd(profile.peer_isn, 1)

\* C5: after open, the peer's SYN+ACK (ack = ISS + 1) makes the connection
\* Established, and the next poll of next_send_segment emits the ACK, with
\* ack_number = peer_ISS + 1.
C5_ActiveOpen ==
    /\ (Idle /\ conn.current = "SynSent") =>
            \A x \in profile.syn_options :
                \E r \in {arrives(conn,
                                  PacketOf(MkSegment(FlagsSYN, profile.peer_isn,
                                                     Some(conn.send.next),
                                                     x[1], x[2], x[3], 0)),
                                  four_tuple, -1, FALSE)} :
                    r.panic = "" /\ r.c.current = "Established"
    /\ (/\ Idle /\ last = "arrives" /\ prior = "SynSent"
        /\ conn.current = "Established" /\ ~ShiftOverflows(conn.send)) =>
            \A avail \in AvailableValues :
                \E r \in {next_send_segment(conn, avail, now, four_tuple, FALSE)} :
                    /\ r.panic = ""
                    /\ r.ret.segment.some
                    /\ r.ret.segment.v.repr.ack_number =
                            Some(SeqAdd(profile.peer_isn, 1))

\* C6: in Established with available.fin and every byte of available.total in
\* flight (also when total = 0), the next poll emits a FIN segment and moves to
\* FinWait; in FinWait with the FIN acknowledged, the peer's FIN+ACK leaves
\* the connection in TimeWait with retransmission_timer = t +
\* 2 * retransmission_timeout; in TimeWait with no ACK pending, a poll past
\* that time returns delete = true.
C6_ActiveClose ==
    /\ (/\ Idle /\ conn.current = "Established" /\ ~ShiftOverflows(conn.send)
        /\ SeqLe(conn.send.unacked, conn.send.next)) =>
            \A avail \in {a \in AvailableValues :
                            a.fin /\ a.total = in_flight(conn.send)} :
                \E r \in {next_send_segment(conn, avail, now, four_tuple, FALSE)} :
                    /\ r.panic = ""
                    /\ r.ret.segment.some
                    /\ r.ret.segment.v.repr.flags.fin
                    /\ r.c.current = "FinWait"
    /\ (/\ Idle /\ conn.current = "FinWait"
        /\ conn.send.unacked = conn.send.next
        /\ conn.recv.acked = conn.recv.next) =>
            \E r \in {arrives(conn,
                              PacketOf(MkSegment(FlagsFIN, conn.recv.next,
                                                 Some(conn.send.next), 0, None, None, 0)),
                              four_tuple, -1, FALSE)} :
                /\ r.panic = ""
                /\ r.c.current = "TimeWait"
                /\ r.c.retransmission_timer = now + 2 * conn.retransmission_timeout
    /\ (/\ Idle /\ conn.current = "TimeWait"
        /\ conn.recv.acked = conn.recv.next
        /\ now > conn.retransmission_timer) =>
            \A avail \in AvailableValues :
                next_send_segment(conn, avail, now, four_tuple, FALSE).ret.delete

\* C7: in Established with data in flight, after three duplicate ACKs the next
\* poll retransmits from send.unacked, min(SMSS, send window, available.total)
\* bytes, without advancing send.next; after one or two duplicate ACKs a poll
\* made before the retransmission timer expires retransmits nothing.
C7_FastRetransmit ==
    (/\ Idle /\ conn.current = "Established" /\ ~ShiftOverflows(conn.send)
     /\ SeqLt(conn.send.unacked, conn.send.next)) =>
        \A avail \in AvailableValues :
            \E r \in {next_send_segment(conn, avail, now, four_tuple, FALSE)},
               to_send \in {Min(Min(send_window(conn.send),
                                    conn.sender_maximum_segment_size), avail.total)} :
                /\ (conn.duplicate_ack = 3 /\ to_send > 0) =>
                        /\ r.ret.segment.some
                        /\ r.ret.segment.v.repr.seq_number = conn.send.unacked
                        /\ r.ret.segment.v.repr.payload_len = to_send
                        /\ r.c.send.next = conn.send.next
                /\ (/\ conn.duplicate_ack \in {1, 2}
                    /\ conn.retransmission_timer >= now) =>
                        ~(/\ r.ret.segment.some
                          /\ r.ret.segment.v.repr.seq_number = conn.send.unacked)

\* C8: in Established or FinWait a segment without RST that fails the
\* acceptability test is answered with a bare ACK (no flags, no payload,
\* seq = send.next, ack_number = recv.next, window_len = recv.window) and
\* changes neither current, send.unacked, send.next, recv.next nor
\* duplicate_ack; no receive, reset or delete is signalled.
C8_UnacceptableAcked ==
    (Idle /\ conn.current \in {"Established", "FinWait"}) =>
        \A segment \in {x \in ArrivingFor(conn, profile) :
                            ~x.flags.rst /\ ~ingress_acceptable(conn, x)} :
            \A debug \in BuildsOn(conn, segment) :
                \E r \in {arrives(conn, PacketOf(segment), four_tuple, -1, debug)} :
                    /\ r.panic = ""
                    /\ r.ret.answer.some
                    /\ r.ret.answer.v.flags = NoFlags
                    /\ r.ret.answer.v.payload_len = 0
                    /\ r.ret.answer.v.seq_number = conn.send.next
                    /\ r.ret.answer.v.ack_number = Some(conn.recv.next)
                    /\ r.ret.answer.v.window_len = conn.recv.window
                    /\ r.c.current = conn.current
                    /\ r.c.send.unacked = conn.send.unacked
                    /\ r.c.send.next = conn.send.next
                    /\ r.c.recv.next = conn.recv.next
                    /\ r.c.duplicate_ack = conn.duplicate_ack
                    /\ ~r.ret.receive.some /\ ~r.ret.reset /\ ~r.ret.delete
                    /\ r.four = four_tuple

\* An unacceptable segment has arrived in Established and was answered: the
\* state is the one arrives leaves, with the signals it returned.
C8_Witness ==
    /\ Idle /\ last = "arrives" /\ prior = "Established"
    /\ conn.current = "Established"
    /\ \E segment \in ArrivingFor(conn, profile) :
          /\ ~segment.flags.rst /\ ~ingress_acceptable(conn, segment)
          /\ segment.payload_len > 0
          /\ \E r \in {arrives(conn, PacketOf(segment), four_tuple, -1, FALSE)} :
                r.c = conn /\ r.ret = signals /\ signals.answer.some

\* C9: open on a Closed connection at time t succeeds and sets current =
\* SynSent, send.unacked = ISS, send.next = ISS + 1, retransmission_timer = t;
\* in SynSent (SynReceived) a poll at time >= retransmission_timer emits a SYN
\* with seq = ISS, an empty range and ack_number None (Some(recv.next)), sets
\* retransmission_timer = time + retransmission_timeout and keeps the state;
\* a poll before the timer emits nothing and changes nothing.
C9_OpenAndSyn ==
    /\ (Idle /\ conn.current = "Closed") =>
            \A isn \in IsnValues :
                \E r \in {open(conn, now, isn)} :
                    /\ r.ret = "Ok"
                    /\ r.c.current = "SynSent"
                    /\ r.c.send.unacked = isn
                    /\ r.c.send.next = SeqAdd(isn, 1)
                    /\ r.c.retransmission_timer = now
    /\ (Idle /\ conn.current \in {"SynSent", "SynReceived"}) =>
            \A avail \in AvailableValues, debug \in BOOLEAN :
                \E r \in {next_send_segment(conn, avail, now, four_tuple, debug)} :
                    IF now >= conn.retransmission_timer
                    THEN /\ r.panic = ""
                         /\ r.ret.segment.some /\ ~r.ret.delete
                         /\ r.ret.segment.v.repr.flags = FlagsSYN
                         /\ r.ret.segment.v.repr.seq_number = conn.send.initial_seq
                         /\ r.ret.segment.v.range = [start |-> 0, end |-> 0]
                         /\ r.ret.segment.v.repr.ack_number =
                                IF conn.current = "SynSent" THEN None
                                ELSE Some(conn.recv.next)
                         /\ r.c.retransmission_timer = now + conn.retransmission_timeout
                         /\ r.c.current = conn.current
                         /\ r.c.previous = conn.previous
                         /\ r.c.send = conn.send
                    ELSE /\ r.panic = ""
                         /\ r.ret = OutSignals_none
                         /\ r.c = conn

\* A connection opened and moved to SynReceived has been polled and has
\* emitted its SYN with an acknowledgement.
C9_Witness ==
    /\ last = "next_send_segment" /\ prior = "SynReceived"
    /\ conn.current = "SynReceived"
    /\ conn.send.next = SeqAdd(conn.send.initial_seq, 1)
    /\ out.segment.some
    /\ out.segment.v.repr.flags.syn
    /\ out.segment.v.repr.ack_number = Some(conn.recv.next)
    /\ conn.retransmission_timer = now + conn.retransmission_timeout

\* C10: arrives on a Closed connection, and on a Listen connection for any
\* segment but a SYN without ACK and RST, leaves the connection and the
\* four-tuple unchanged with delete and reset false; a segment with RST gets no
\* answer; one with an ACK and no RST is answered with RST, seq = its
\* ack_number; otherwise Closed answers RST with seq = 0 and ack = segment.seq
\* + sequence_len, and Listen answers nothing.
C10_Stateless ==
    (Idle /\ conn.current \in {"Closed", "Listen"}) =>
        \A segment \in SegmentsFor(conn, profile), from \in Addresses,
           isn \in IsnValues :
            (\/ conn.current = "Closed"
             \/ ~(/\ segment.flags.syn /\ ~segment.flags.rst
                  /\ ~segment.ack_number.some)) =>
                \E r \in {arrives(conn, [segment |-> segment, from |-> from,
                                         time |-> now], four_tuple, isn, FALSE)} :
                    /\ r.panic = ""
                    /\ r.c = conn
                    /\ r.four = four_tuple
                    /\ ~r.ret.delete /\ ~r.ret.reset /\ ~r.ret.receive.some
                    /\ IF segment.flags.rst
                       THEN ~r.ret.answer.some
                       ELSE IF segment.ack_number.some
                       THEN /\ r.ret.answer.some
                            /\ r.ret.answer.v.flags = FlagsRST
                            /\ r.ret.answer.v.seq_number = segment.ack_number.v
                       ELSE IF conn.current = "Closed"
                       THEN /\ r.ret.answer.some
                            /\ r.ret.answer.v.flags = FlagsRST
                            /\ r.ret.answer.v.seq_number = 0
                            /\ r.ret.answer.v.ack_number =
                                  Some(SeqAdd(segment.seq_number,
                                              repr_sequence_len(segment)))
                       ELSE ~r.ret.answer.some

\* A segment with neither RST nor an ACK has arrived on the Closed connection
\* and was answered with a reset from sequence number 0.
C10_Witness ==
    /\ last = "arrives" /\ prior = "Closed" /\ conn.current = "Closed"
    /\ ~signals.delete /\ ~signals.reset
    /\ signals.answer.some
    /\ signals.answer.v.flags.rst
    /\ signals.answer.v.seq_number = 0
    /\ signals.answer.v.ack_number.some

\* C11: every Signals value arrives returns whose answer carries RST also has
\* delete = true, unless the connection was Closed when the segment arrived.
C11_RstDeletes ==
    (Idle /\ conn.current # "Closed") =>
        \A segment \in ArrivingFor(conn, profile), from \in FromFor(conn),
           isn \in IsnValues :
            \A debug \in BuildsOn(conn, segment) :
                \E r \in {arrives(conn, [segment |-> segment, from |-> from,
                                         time |-> now], four_tuple, isn, debug)} :
                    (r.panic = "" /\ r.ret.answer.some /\ r.ret.answer.v.flags.rst)
                        => r.ret.delete

\* C11, amended: every Signals value arrives returns in Established or FinWait
\* whose answer carries RST also has delete = true and reset = true and leaves
\* the connection Closed.
C11_RstDeletesSynchronized ==
    (Idle /\ conn.current \in {"Established", "FinWait"}) =>
        \A segment \in ArrivingFor(conn, profile) :
            \A debug \in BuildsOn(conn, segment) :
                \E r \in {arrives(conn, PacketOf(segment), four_tuple, -1, debug)} :
                    (r.panic = "" /\ r.ret.answer.some /\ r.ret.answer.v.flags.rst)
                        => /\ r.ret.delete /\ r.ret.reset
                           /\ r.c.current = "Closed"

\* A SYN has arrived inside the window of an Established connection and was
\* answered with a reset.
C11_Witness ==
    /\ last = "arrives" /\ prior = "Established" /\ conn.current = "Closed"
    /\ signals.answer.some /\ signals.answer.v.flags.rst
    /\ signals.answer.v.seq_number = conn.send.next
    /\ signals.delete /\ deleted

\* C12: duplicate_ack changes only in arrives, where an ACK classified as
\* Updated (send.unacked < ack <= send.next) resets it to 0 and an ACK equal to
\* send.unacked adds one to it, saturating at 255; open, set_recv_ack,
\* next_send_segment and every other segment leave it as it is.
C12_DuplicateAck ==
    /\ Running =>
            \A meta \in MetaValues(conn) :
                set_recv_ack(conn, meta).duplicate_ack = conn.duplicate_ack
    /\ Idle =>
        /\ \A isn \in IsnValues :
                open(conn, now, isn).c.duplicate_ack = conn.duplicate_ack
        \* the counter as it is, and as far below 255 as it is above 0
        /\ \A d \in {conn.duplicate_ack, U8Max - conn.duplicate_ack} :
            \E c \in {[conn EXCEPT !.duplicate_ack = d]} :
                /\ \A avail \in AvailableValues, debug \in BuildsFor(c) :
                        next_send_segment(c, avail, now, four_tuple, debug)
                            .c.duplicate_ack = d
                /\ \A segment \in ArrivingFor(c, profile), from \in FromFor(c) :
                    \A debug \in BuildsOn(c, segment) :
                        \E r \in {arrives(c, [segment |-> segment, from |-> from,
                                              time |-> now], four_tuple, -1, debug)},
                           classified \in {/\ c.current \in {"Established", "FinWait"}
                                           /\ ingress_acceptable(c, segment)
                                           /\ ~segment.flags.syn
                                           /\ segment.ack_number.some} :
                            r.c.duplicate_ack =
                                IF r.panic # "" \/ ~classified THEN d
                                ELSE IF /\ SeqLt(c.send.unacked, segment.ack_number.v)
                                        /\ SeqLe(segment.ack_number.v, c.send.next)
                                THEN 0
                                ELSE IF segment.ack_number.v = c.send.unacked
                                THEN Min(d + 1, U8Max)
                                ELSE d

\* Two acknowledgements of send.unacked have arrived in a row while data was
\* in flight, and were counted.
C12_Witness ==
    /\ last = "arrives" /\ prior = "Established" /\ conn.current = "Established"
    /\ SeqLt(conn.send.unacked, conn.send.next)
    /\ conn.duplicate_ack = 2

\* C13: ingress_acceptable returns true if and only if seq lies in
\* [recv.next, recv.next + recv.window) in windowed arithmetic, or payload_len
\* > 0 and the segment's last byte seq + payload_len - 1 lies in that interval,
\* for every window (0 included) and every payload length (0 included).
C13_AcceptableIffInWindow ==
    \A window \in ProbeWindows, seq \in ProbeSeqs(conn), len \in ProbeLens :
        \E c \in {[conn EXCEPT !.recv.window = window]},
           last_byte \in {SeqSub(SeqAdd(seq, len), 1)} :
            ingress_acceptable(c, MkSegment(NoFlags, seq, None, 0, None, None, len))
                <=> \/ /\ SeqDiff(seq, c.recv.next) >= 0
                       /\ SeqDiff(seq, c.recv.next) < window
                    \/ /\ len > 0
                       /\ SeqDiff(last_byte, c.recv.next) >= 0
                       /\ SeqDiff(last_byte, c.recv.next) < window

\* C13, amended: ingress_acceptable returns true if and only if payload_len =
\* 0, recv.window = 0 and seq = recv.next, or seq lies in [recv.next,
\* recv.next + recv.window), or payload_len > 0 and the segment's last byte
\* lies in that interval.
C13_AcceptableRfc793 ==
    \A window \in ProbeWindows, seq \in ProbeSeqs(conn), len \in ProbeLens :
        \E c \in {[conn EXCEPT !.recv.window = window]},
           last_byte \in {SeqSub(SeqAdd(seq, len), 1)} :
            ingress_acceptable(c, MkSegment(NoFlags, seq, None, 0, None, None, len))
                <=> \/ len = 0 /\ window = 0 /\ seq = c.recv.next
                    \/ /\ SeqDiff(seq, c.recv.next) >= 0
                       /\ SeqDiff(seq, c.recv.next) < window
                    \/ /\ len > 0
                       /\ SeqDiff(last_byte, c.recv.next) >= 0
                       /\ SeqDiff(last_byte, c.recv.next) < window

\* A segment has arrived at an Established connection whose receive window is
\* 0 and was found acceptable: it was neither answered nor did it reset.
C13_Witness ==
    /\ last = "arrives" /\ prior = "Established" /\ conn.current = "Established"
    /\ conn.recv.window = 0
    /\ ~signals.answer.some /\ ~signals.reset
    /\ panicked = ""

\* C14: set_recv_ack is idempotent: in every state of the connection and for
\* every ReceivedSegment s, set_recv_ack(s) applied twice in a row leaves the
\* recv.next, current, previous, ack_timer and retransmission_timer (and every
\* other field) that applying it once leaves.
C14_SetRecvAckIdempotent ==
    Running =>
        \A state \in States, meta \in MetaValues(conn) :
            \E once \in {set_recv_ack([conn EXCEPT !.current = state], meta)} :
                set_recv_ack(once, meta) = once

\* set_recv_ack has been called with the segment arrives returned, 2 bytes at
\* recv.next, and calling it with that segment again changes nothing.
C14_Witness ==
    /\ last = "set_recv_ack" /\ panicked = ""
    /\ ~conn.ack_timer.never
    /\ SeqLt(conn.recv.acked, conn.recv.next)
    /\ set_recv_ack(conn, [syn |-> FALSE, fin |-> FALSE, data_len |-> 2,
                           begin |-> SeqSub(conn.recv.next, 2),
                           timestamp |-> now]) = conn

\* C15: between handler calls ack_timer = Never if and only if recv.acked =
\* recv.next: a delayed-ACK timer is pending exactly when received sequence
\* space has not been acknowledged.
C15_AckTimerIffUnacked ==
    Idle => (conn.ack_timer.never <=> conn.recv.acked = conn.recv.next)

\* C16: current = Closed exactly when the slot is scheduled for removal:
\* every result of arrives or next_send_segment with delete = true leaves the
\* connection Closed, and every transition into Closed comes with delete =
\* true in the signals returned.
C16_ClosedIffDelete ==
    Idle =>
        /\ \A segment \in ArrivingFor(conn, profile), from \in FromFor(conn) :
            \A debug \in BuildsOn(conn, segment) :
                \E r \in {arrives(conn, [segment |-> segment, from |-> from,
                                         time |-> now], four_tuple, -1, debug)} :
                    r.panic = "" =>
                        /\ r.ret.delete => r.c.current = "Closed"
                        /\ (r.c.current = "Closed" /\ conn.current # "Closed")
                                => r.ret.delete
        /\ \A avail \in AvailableValues, debug \in BuildsFor(conn) :
                \E r \in {next_send_segment(conn, avail, now, four_tuple, debug)} :
                    r.panic = "" =>
                        /\ r.ret.delete => r.c.current = "Closed"
                        /\ (r.c.current = "Closed" /\ conn.current # "Closed")
                                => r.ret.delete

\* C17: in every reachable state send.window_scale <= 14 and
\* recv.window_scale <= 14, whatever window scale the peer puts in its SYN.
C17_WindowScaleAtMost14 ==
    /\ conn.send.window_scale <= 14
    /\ conn.recv.window_scale <= 14

C19_ReceivedIsAcked ==
    (/\ Idle /\ conn.current \in {"Established", "CloseWait"}
     /\ SeqLt(conn.recv.acked, conn.recv.next)
     /\ ExpLe(conn.ack_timer, When(now))
     /\ ~ShiftOverflows(conn.send)) =>
        \A avail \in AvailableValues :
            \E r \in {next_send_segment(conn, avail, now, four_tuple, FALSE)} :
                /\ r.panic = ""
                /\ r.ret.segment.some
                /\ r.ret.segment.v.repr.ack_number = Some(conn.recv.next)

\* C20: every segment next_send_segment returns, in every state, carries
\* ack_number = Some(recv.next), and the call leaves recv.acked = recv.next and
\* ack_timer = Never.
C20_EverySegmentAcks ==
    Idle =>
        \A avail \in AvailableValues, debug \in BuildsFor(conn) :
            \E r \in {next_send_segment(conn, avail, now, four_tuple, debug)} :
                (r.panic = "" /\ r.ret.segment.some) =>
                    /\ r.ret.segment.v.repr.ack_number = Some(r.c.recv.next)
                    /\ r.c.recv.acked = r.c.recv.next
                    /\ r.c.ack_timer.never

\* C20, amended: every segment next_send_segment returns in a state other
\* than SynSent carries ack_number = Some(recv.next), and the call leaves
\* recv.acked = recv.next and ack_timer = Never; the SYN emitted in SynSent
\* carries no acknowledgement and leaves recv.acked and ack_timer alone.
C20_SegmentAcksUnlessSynSent ==
    Idle =>
        \A avail \in AvailableValues, debug \in BuildsFor(conn) :
            \E r \in {next_send_segment(conn, avail, now, four_tuple, debug)} :
                (r.panic = "" /\ r.ret.segment.some) =>
                    IF conn.current = "SynSent"
                    THEN /\ r.ret.segment.v.repr.ack_number = None
                         /\ r.c.recv = conn.recv
                         /\ r.c.ack_timer = conn.ack_timer
                    ELSE /\ r.ret.segment.v.repr.ack_number = Some(conn.recv.next)
                         /\ r.c.recv.next = conn.recv.next
                         /\ r.c.recv.acked = conn.recv.next
                         /\ r.c.ack_timer.never

\* A poll of an Established connection has emitted data, acknowledging what
\* was received.
C20_Witness ==
    /\ last = "next_send_segment" /\ prior = "Established"
    /\ out.segment.some
    /\ out.segment.v.repr.payload_len > 0
    /\ out.segment.v.repr.ack_number = Some(conn.recv.next)
    /\ conn.recv.acked = conn.recv.next
    /\ conn.recv.next = SeqAdd(profile.peer_isn, 1)
    /\ conn.ack_timer.never

\* C21: set_recv_ack(s), with acked_all = (send.next = send.unacked), moves
\* Established or SynReceived with s.fin to CloseWait, FinWait with s.fin and
\* acked_all to TimeWait, Closing with acked_all to TimeWait, FinWait with
\* s.fin and not acked_all to Closing, and keeps current otherwise; entering
\* TimeWait sets retransmission_timer to s.timestamp + 2 *
\* retransmission_timeout; always recv.next becomes s.begin + sequence_len and
\* ack_timer becomes min(ack_timer, When(s.timestamp + ack_timeout)); no
\* field of send changes.
C21_SetRecvAckTransitions ==
    Running =>
        \A state \in States, meta \in MetaValues(conn) :
            \E c \in {[conn EXCEPT !.current = state]} :
            \E r \in {set_recv_ack(c, meta)},
               acked_all \in {c.send.next = c.send.unacked} :
                /\ r.current =
                        IF state \in {"Established", "SynReceived"} /\ meta.fin
                        THEN "CloseWait"
                        ELSE IF state = "FinWait" /\ meta.fin /\ acked_all
                        THEN "TimeWait"
                        ELSE IF state = "Closing" /\ acked_all
                        THEN "TimeWait"
                        ELSE IF state = "FinWait" /\ meta.fin /\ ~acked_all
                        THEN "Closing"
                        ELSE state
                /\ r.retransmission_timer =
                        IF r.current = "TimeWait" /\ state # "TimeWait"
                        THEN meta.timestamp + 2 * c.retransmission_timeout
                        ELSE c.retransmission_timer
                /\ r.recv.next =
                        SeqAdd(meta.begin,
                               meta.data_len + BoolToInt(meta.syn) + BoolToInt(meta.fin))
                /\ r.ack_timer =
                        IF \/ c.ack_timer.never
                           \/ meta.timestamp + c.ack_timeout < c.ack_timer.at
                        THEN When(meta.timestamp + c.ack_timeout)
                        ELSE c.ack_timer
                /\ r.send = c.send

\* The peer's FIN has arrived in FinWait after our FIN was acknowledged, and
\* set_recv_ack has moved the connection to TimeWait and set the timer.
C21_Witness ==
    /\ last = "arrives" /\ prior = "FinWait" /\ conn.current = "TimeWait"
    /\ conn.previous = "FinWait"
    /\ conn.send.next = conn.send.unacked
    /\ conn.retransmission_timer = now + 2 * conn.retransmission_timeout
    /\ ~conn.ack_timer.never

\* C22: in TimeWait next_send_segment first flushes a pending ACK (recv.acked
\* # recv.next) with delete = false; it returns delete = true exactly when no
\* ACK is pending and time >= retransmission_timer, which is the time of the
\* entry into TimeWait + 2 * retransmission_timeout, never together with a
\* segment, and it never changes current.
C22_TimeWaitLingers ==
    /\ (Idle /\ conn.current = "TimeWait") =>
        \A avail \in AvailableValues, time \in PollTimes, debug \in BOOLEAN :
            \E r \in {next_send_segment(conn, avail, time, four_tuple, debug)} :
                /\ r.panic = ""
                /\ r.c.current = "TimeWait"
                /\ r.c.retransmission_timer = conn.retransmission_timer
                /\ IF conn.recv.acked # conn.recv.next
                   THEN /\ r.ret.segment.some /\ ~r.ret.delete
                        /\ r.ret.segment.v.repr.ack_number = Some(conn.recv.next)
                        /\ r.ret.segment.v.repr.flags = NoFlags
                        /\ r.ret.segment.v.range = [start |-> 0, end |-> 0]
                        /\ r.c.recv.acked = conn.recv.next
                   ELSE /\ ~r.ret.segment.some
                        /\ r.ret.delete <=> time >= conn.retransmission_timer
                        /\ r.c = conn
    /\ (Idle /\ conn.current \in {"FinWait", "Closing"}) =>
        \A segment \in ArrivingFor(conn, profile) :
            \E r \in {arrives(conn, PacketOf(segment), four_tuple, -1, FALSE)} :
                r.c.current = "TimeWait" =>
                    r.c.retransmission_timer = now + 2 * conn.retransmission_timeout
    /\ (Running /\ pending.some /\ conn.current # "TimeWait") =>
        \E c \in {set_recv_ack(conn, pending.v)} :
            c.current = "TimeWait" =>
                c.retransmission_timer =
                    pending.v.timestamp + 2 * conn.retransmission_timeout

\* A connection in TimeWait with no ACK pending has been polled at its
\* timer's time and was deleted, still in TimeWait.
C22_Witness ==
    /\ last = "next_send_segment" /\ prior = "TimeWait"
    /\ conn.current = "TimeWait"
    /\ conn.recv.acked = conn.recv.next
    /\ now >= conn.retransmission_timer
    /\ out.delete /\ ~out.segment.some /\ deleted

\* C23: open on a connection that is neither Closed nor Listen returns
\* Err(Illegal) and leaves every field of the connection unchanged; open on
\* Closed or Listen returns Ok.
C23_OpenIllegal ==
    Idle =>
        \A state \in States, isn \in IsnValues :
            \E c \in {[conn EXCEPT !.current = state]} :
            \E r \in {open(c, now, isn)} :
                IF state \in {"Closed", "Listen"}
                THEN r.ret = "Ok"
                ELSE r.ret = "Illegal" /\ r.c = c

\* open has been called on a connection that was not Closed and has
\* returned the error.
C23_Witness ==
    /\ last = "open" /\ prior \notin {"Closed", "Listen"}
    /\ open_result = "Illegal"
    /\ conn.current = prior

\* C24: the four-tuple is remapped only by arrives in Listen on a SYN without
\* ACK and RST, which changes only the remote address, to the sender; arrives
\* in every other state or for every other segment, next_send_segment, open
\* and set_recv_ack never change the four-tuple.
C24_RemapOnlyOnListenSyn ==
    /\ [](Idle =>
            /\ \A segment \in ArrivingFor(conn, profile), from \in Addresses :
                \A debug \in BuildsOn(conn, segment) :
                    \E r \in {arrives(conn, [segment |-> segment, from |-> from,
                                             time |-> now], four_tuple, -1, debug)} :
                        r.four =
                            IF /\ conn.current = "Listen"
                               /\ segment.flags.syn /\ ~segment.flags.rst
                               /\ ~segment.ack_number.some
                            THEN [four_tuple EXCEPT !.remote = from]
                            ELSE four_tuple
            /\ \A avail \in AvailableValues, debug \in BuildsFor(conn) :
                    next_send_segment(conn, avail, now, four_tuple, debug).four
                        = four_tuple)
    /\ [][four_tuple' # four_tuple =>
            /\ last' = "arrives" /\ prior' = "Listen"
            /\ \E from \in Addresses :
                    four_tuple' = [four_tuple EXCEPT !.remote = from]]_vars

\* A SYN from another address has arrived in Listen and the slot is remapped
\* to its sender.
C24_Witness ==
    /\ last = "arrives" /\ prior = "Listen"
    /\ four_tuple = [Tuple0 EXCEPT !.remote = "192.0.10.3"]
    /\ signals.answer.some
    /\ conn.recv.next = SeqAdd(profile.peer_isn, 1)

\* The segments with SYN and neither RST nor an ACK that arrive in Listen.
ListenSyns(c, p) ==
    {x \in SegmentsFor(c, p) :
        x.flags.syn /\ ~x.flags.rst /\ ~x.ack_number.some}

\* C25: a segment with SYN and neither RST nor ACK arriving in Listen sets
\* recv.initial_seq to seq, recv.next to seq + 1, send.initial_seq and
\* send.unacked to ISN, send.next to ISN + 1, and leaves the connection in
\* SynReceived with previous = Listen.
C25_ListenSynReceived ==
    (Idle /\ conn.current = "Listen") =>
        \A segment \in ListenSyns(conn, profile), from \in Addresses,
           isn \in IsnValues :
            \E r \in {arrives(conn, [segment |-> segment, from |-> from,
                                     time |-> now], four_tuple, isn, FALSE)} :
                /\ r.panic = ""
                /\ r.c.recv.initial_seq = segment.seq_number
                /\ r.c.recv.next = SeqAdd(segment.seq_number, 1)
                /\ r.c.send.initial_seq = isn
                /\ r.c.send.unacked = isn
                /\ r.c.send.next = SeqAdd(isn, 1)
                /\ r.c.current = "SynReceived"
                /\ r.c.previous = "Listen"

\* C26: the answer arrives returns for a valid SYN in Listen is a SYN+ACK:
\* SYN set, RST clear, seq = ISN, ack_number = segment.seq + 1, with reset and
\* delete false.
C26_ListenAnswersSynAck ==
    (Idle /\ conn.current = "Listen") =>
        \A segment \in ListenSyns(conn, profile), from \in Addresses,
           isn \in IsnValues :
            \E r \in {arrives(conn, [segment |-> segment, from |-> from,
                                     time |-> now], four_tuple, isn, FALSE)} :
                /\ r.panic = ""
                /\ r.ret.answer.some
                /\ r.ret.answer.v.flags.syn /\ ~r.ret.answer.v.flags.rst
                /\ r.ret.answer.v.seq_number = isn
                /\ r.ret.answer.v.ack_number = Some(SeqAdd(segment.seq_number, 1))
                /\ ~r.ret.reset /\ ~r.ret.delete

\* An acknowledgement number inside (ISS, SND.NXT] in windowed ordering.
AcksOurSyn(c, ack) ==
    ack.some /\ SeqLt(c.send.initial_seq, ack.v) /\ SeqLe(ack.v, c.send.next)

\* C27: in SynSent a segment whose ACK lies outside (ISS, SND.NXT] never
\* changes the connection: with RST it is dropped without answer, otherwise
\* it is answered with RST, seq = ack, ack = segment.seq; an RST resets the
\* connection (Closed, reset = true, delete = true) only if it carries an ACK
\* inside (ISS, SND.NXT]; an RST without ACK, and any segment without SYN and
\* RST, is dropped with no state change.
C27_SynSentRejects ==
    (Idle /\ conn.current = "SynSent") =>
        \A segment \in SegmentsFor(conn, profile) :
            \E r \in {arrives(conn, PacketOf(segment), four_tuple, -1, FALSE)},
               inside \in {AcksOurSyn(conn, segment.ack_number)} :
                /\ r.panic = ""
                /\ r.four = four_tuple
                /\ (segment.ack_number.some /\ ~inside) =>
                        /\ r.c = conn
                        /\ ~r.ret.reset /\ ~r.ret.delete /\ ~r.ret.receive.some
                        /\ IF segment.flags.rst
                           THEN ~r.ret.answer.some
                           ELSE /\ r.ret.answer.some
                                /\ r.ret.answer.v.flags = FlagsRST
                                /\ r.ret.answer.v.seq_number = segment.ack_number.v
                                /\ r.ret.answer.v.ack_number = Some(segment.seq_number)
                /\ (segment.flags.rst /\ inside) =>
                        /\ r.c.current = "Closed"
                        /\ r.ret.reset /\ r.ret.delete
                        /\ ~r.ret.answer.some
                /\ (segment.flags.rst /\ ~inside) =>
                        r.c = conn /\ ~r.ret.reset /\ ~r.ret.delete
                /\ (~segment.flags.rst /\ ~segment.flags.syn
                    /\ (inside \/ ~segment.ack_number.some)) =>
                        r.c = conn /\ r.ret = SignalsDefault

\* A segment acknowledging something the connection in SynSent has not sent
\* has arrived and was answered with a reset from that number; the
\* connection is as it was after open.
C27_Witness ==
    /\ last = "arrives" /\ prior = "SynSent" /\ conn.current = "SynSent"
    /\ conn.send.next = SeqAdd(conn.send.initial_seq, 1)
    /\ signals.answer.some
    /\ signals.answer.v.flags = FlagsRST
    /\ signals.answer.v.seq_number = SeqAdd(conn.send.next, 1)
    /\ ~signals.delete /\ ~signals.reset

\* C28: in SynSent a SYN without RST whose ACK is absent or inside (ISS,
\* SND.NXT] sets recv.initial_seq to seq, recv.next to seq + 1, send.window
\* and send.window_scale from the segment and sender_maximum_segment_size to
\* max(peer MSS or 536, 536); if it acknowledges our SYN the state becomes
\* Established with send.unacked = ISS + 1, ack_timer = When(arrival time) and
\* no answer, otherwise SynReceived with a SYN as answer, seq = ISS and
\* ack_number = seq + 1.
C28_SynSentAccepts ==
    (Idle /\ conn.current = "SynSent") =>
        \A segment \in {x \in SegmentsFor(conn, profile) :
                            /\ x.flags.syn /\ ~x.flags.rst
                            /\ (~x.ack_number.some \/ AcksOurSyn(conn, x.ack_number))} :
            \E r \in {arrives(conn, PacketOf(segment), four_tuple, -1, FALSE)},
               mss \in {IF segment.max_seg_size.some THEN segment.max_seg_size.v
                        ELSE 536} :
                /\ r.panic = ""
                /\ r.c.recv.initial_seq = segment.seq_number
                /\ r.c.recv.next = SeqAdd(segment.seq_number, 1)
                /\ r.c.send.window = segment.window_len
                /\ r.c.send.window_scale =
                        IF segment.window_scale.some THEN segment.window_scale.v ELSE 0
                /\ r.c.sender_maximum_segment_size = IF mss >= 536 THEN mss ELSE 536
                /\ ~r.ret.reset /\ ~r.ret.delete
                /\ IF segment.ack_number.some
                   THEN /\ r.c.current = "Established"
                        /\ r.c.send.unacked = SeqAdd(conn.send.initial_seq, 1)
                        /\ r.c.ack_timer = When(now)
                        /\ ~r.ret.answer.some
                   ELSE /\ r.c.current = "SynReceived"
                        /\ r.ret.answer.some
                        /\ r.ret.answer.v.flags.syn /\ ~r.ret.answer.v.flags.rst
                        /\ r.ret.answer.v.seq_number = conn.send.initial_seq
                        /\ r.ret.answer.v.ack_number =
                                Some(SeqAdd(segment.seq_number, 1))

\* The peer's SYN without ACK has arrived in SynSent (a simultaneous open):
\* the connection is in SynReceived and has answered with a SYN that
\* acknowledges the peer's.
C28_Witness ==
    /\ last = "arrives" /\ prior = "SynSent" /\ conn.current = "SynReceived"
    /\ conn.recv.next = SeqAdd(profile.peer_isn, 1)
    /\ conn.sender_maximum_segment_size >= DefaultMss
    /\ signals.answer.some
    /\ signals.answer.v.flags = FlagsSYN
    /\ signals.answer.v.ack_number = Some(conn.recv.next)

\* C29: in Established or CloseWait with no retransmission due (duplicate_ack
\* < 2 and the time not past retransmission_timer), if sent = send.next -
\* send.unacked is below max_sent = min(send.window << send.window_scale,
\* available.total), next_send_segment emits exactly the range [sent,
\* min(sent + SMSS, max_sent)) with seq = the old send.next; FIN is set iff
\* available.fin and the range ends at available.total, and then Established
\* becomes FinWait and CloseWait becomes LastAck; send.next advances by the
\* range length plus one for the FIN, and send.unacked is unchanged.
C29_NewDataRange ==
    (/\ Idle
     /\ conn.current \in {"Established", "CloseWait"}
     /\ conn.duplicate_ack < 2
     /\ ~ShiftOverflows(conn.send)) =>
        \A avail \in AvailableValues,
           time \in {t \in PollTimes : t <= conn.retransmission_timer} :
            LET scale == conn.send.window_scale
                window == IF scale <= 15
                          THEN conn.send.window * (2 ^ scale)
                          ELSE (conn.send.window % (2 ^ (32 - scale))) * (2 ^ scale)
                sent == SeqDiff(conn.send.next, conn.send.unacked)
                max_sent == Min(window, avail.total)
                end == Min(sent + conn.sender_maximum_segment_size, max_sent)
                fin == avail.fin /\ end = avail.total
            IN  sent < max_sent =>
                    \E r \in {next_send_segment(conn, avail, time, four_tuple, FALSE)} :
                        /\ r.panic = ""
                        /\ ~r.ret.delete
                        /\ r.ret.segment.some
                        /\ r.ret.segment.v.range = [start |-> sent, end |-> end]
                        /\ r.ret.segment.v.repr.payload_len = end - sent
                        /\ r.ret.segment.v.repr.seq_number = conn.send.next
                        /\ r.ret.segment.v.repr.flags.fin = fin
                        /\ ~r.ret.segment.v.repr.flags.syn
                        /\ ~r.ret.segment.v.repr.flags.rst
                        /\ r.c.current =
                                IF ~fin THEN conn.current
                                ELSE IF conn.current = "Established" THEN "FinWait"
                                ELSE "LastAck"
                        /\ r.c.send.next =
                                SeqAdd(conn.send.next, (end - sent) + BoolToInt(fin))
                        /\ r.c.send.unacked = conn.send.unacked

\* The last two bytes of the stream have been sent from Established together
\* with the FIN, under a scaled window: the connection is in FinWait with
\* three sequence numbers in flight.
C29_Witness ==
    /\ last = "next_send_segment" /\ prior = "Established"
    /\ conn.current = "FinWait"
    /\ conn.send.window_scale > 0
    /\ out.segment.some
    /\ out.segment.v.repr.flags.fin
    /\ out.segment.v.range = [start |-> 0, end |-> 2]
    /\ SeqDiff(conn.send.next, conn.send.unacked) = 3

\* C30: once the FIN has been sent (FinWait, Closing or LastAck),
\* next_send_segment never transmits user bytes past the FIN whatever
\* AvailableBytes it is given: no call advances send.next, and no segment it
\* emits, new or retransmitted, has a range reaching beyond the data bytes
\* sent before the FIN.
C30_NothingPastFin ==
    (/\ Idle
     /\ conn.current \in {"FinWait", "Closing", "LastAck"}
     /\ ~ShiftOverflows(conn.send)) =>
        \A avail \in AvailableValues, time \in PollTimes :
            \E r \in {next_send_segment(conn, avail, time, four_tuple, FALSE)} :
                /\ r.c.send.next = conn.send.next
                /\ r.ret.segment.some =>
                        r.ret.segment.v.range.end
                            <= Max(SeqDiff(conn.send.next, conn.send.unacked) - 1, 0)

\* The segments arrives_established takes to its acknowledgement handling
\* with an acknowledgement of new bytes.
UpdatingAcks(c, p) ==
    {x \in SegmentsFor(c, p) :
        /\ ingress_acceptable(c, x)
        /\ ~x.flags.syn
        /\ x.ack_number.some
        /\ incoming_ack(c.send, x.ack_number.v).update = "Updated"}

C32_AcceptableRelativeToAcked ==
    (Idle /\ conn.current \in {"Established", "FinWait"}) =>
        \A seq \in ProbeSeqs(conn) \cup {conn.recv.acked}, len \in ProbeLens :
            LET base == conn.recv.acked
                window == conn.recv.window
                told(x) == contains_in_window(base, x, window)
                repr == MkSegment(NoFlags, seq, Some(conn.send.unacked),
                                  0, None, None, len)
            IN  ingress_acceptable(conn, repr) =
                    IF len = 0 /\ window = 0 THEN seq = base
                    ELSE IF len = 0 THEN told(seq)
                    ELSE IF window = 0 THEN FALSE
                    ELSE told(seq) \/ told(SeqSub(SeqAdd(seq, len), 1))

AcceptedSegments(c, p) ==
    {x \in SegmentsFor(c, p) : ingress_acceptable(c, x) /\ ~x.flags.syn}

\* C34: in Established/FinWait an accepted segment with an ACK and
\* payload_len > 0 returns Signals.receive = Some(ReceivedSegment{begin = seq,
\* data_len = payload_len, fin, timestamp = arrival time}) and leaves
\* recv.next, recv.acked, ack_timer and current unchanged until the caller
\* applies set_recv_ack; an accepted segment with payload_len = 0 applies
\* set_recv_ack itself and returns no receive signal; an accepted segment
\* without an ACK is dropped with no change at all.
C34_AcceptedSegments ==
    (Idle /\ conn.current \in {"Established", "FinWait"}) =>
        \A segment \in AcceptedSegments(conn, profile) :
            \E r \in {arrives(conn, PacketOf(segment), four_tuple, -1, FALSE)},
               meta \in {[syn |-> FALSE, fin |-> segment.flags.fin,
                          data_len |-> segment.payload_len,
                          begin |-> segment.seq_number, timestamp |-> now]} :
                IF ~segment.ack_number.some
                THEN r.c = conn /\ r.ret = SignalsDefault
                ELSE IF segment.payload_len > 0
                THEN /\ r.ret.receive = Some(meta)
                     /\ r.c.recv = conn.recv
                     /\ r.c.ack_timer = conn.ack_timer
                     /\ r.c.current = conn.current
                ELSE /\ ~r.ret.receive.some
                     /\ \E applied \in {set_recv_ack(
                                [conn EXCEPT !.send.unacked = r.c.send.unacked], meta)} :
                            /\ r.c.recv = applied.recv
                            /\ r.c.ack_timer = applied.ack_timer
                            /\ r.c.current = applied.current

\* C34, with the segments that acknowledge what was never sent set apart:
\* those are answered with an ACK of the previous state and change nothing,
\* whatever their payload.
C34_AcceptedSegmentsAckSent ==
    (Idle /\ conn.current \in {"Established", "FinWait"}) =>
        \A segment \in AcceptedSegments(conn, profile) :
            \E r \in {arrives(conn, PacketOf(segment), four_tuple, -1, FALSE)},
               meta \in {[syn |-> FALSE, fin |-> segment.flags.fin,
                          data_len |-> segment.payload_len,
                          begin |-> segment.seq_number, timestamp |-> now]} :
                IF ~segment.ack_number.some
                THEN r.c = conn /\ r.ret = SignalsDefault
                ELSE IF SeqGt(segment.ack_number.v, conn.send.next)
                THEN /\ ~r.ret.receive.some
                     /\ r.ret.answer.some
                     /\ r.c.recv.next = conn.recv.next
                     /\ r.c.send = conn.send
                     /\ r.c.current = conn.current
                ELSE IF segment.payload_len > 0
                THEN /\ r.ret.receive = Some(meta)
                     /\ ~r.ret.answer.some
                     /\ r.c.recv = conn.recv
                     /\ r.c.ack_timer = conn.ack_timer
                     /\ r.c.current = conn.current
                ELSE /\ r.ret = SignalsDefault
                     /\ \E applied \in {set_recv_ack(
                                [conn EXCEPT !.send.unacked = r.c.send.unacked], meta)} :
                            /\ r.c.recv = applied.recv
                            /\ r.c.ack_timer = applied.ack_timer
                            /\ r.c.current = applied.current

\* Two bytes of data have arrived in order in Established and wait for the
\* caller: the receive signal names them, and recv.next still stands at
\* their first byte.
C34_Witness ==
    /\ last = "arrives" /\ prior = "Established" /\ conn.current = "Established"
    /\ signals.receive.some
    /\ pending = signals.receive
    /\ signals.receive.v.data_len = 2
    /\ signals.receive.v.begin = conn.recv.next
    /\ ~signals.answer.some

\* The pure window updates a peer sends: acceptable segments without flags
\* or payload that acknowledge send.unacked again and advertise a window.
WindowUpdates(c, p) ==
    {x \in SegmentsFor(c, p) :
        /\ ingress_acceptable(c, x)
        /\ x.flags = NoFlags
        /\ x.payload_len = 0
        /\ x.ack_number = Some(c.send.unacked)
        /\ x.window_len > 0}

\* C35: a zero send window does not stall the sender forever: if send.window
\* is 0 and the peer sends an acceptable segment advertising a non-zero
\* window whose ack_number equals send.unacked (a pure window update),
\* send.window is updated and a following poll with available data emits new
\* data.
C35_WindowUpdateReopens ==
    (Idle /\ conn.current = "Established" /\ conn.send.window = 0) =>
        \A segment \in WindowUpdates(conn, profile) :
            \E r \in {arrives(conn, PacketOf(segment), four_tuple, -1, FALSE)} :
                /\ r.c.send.window = segment.window_len
                /\ \A avail \in {a \in AvailableValues : a.total > 0} :
                    \E o \in {next_send_segment(r.c, avail, now, four_tuple, FALSE)} :
                        /\ o.ret.segment.some
                        /\ o.ret.segment.v.repr.payload_len > 0

\* The states in which the main selector of next_send_segment runs.
SendingStates == {"Established", "CloseWait", "FinWait", "Closing", "LastAck"}

\* C36: every retransmitted segment, fast or timeout, covers only sequence
\* space already sent: it has seq = send.unacked and seq + payload_len (+ 1
\* for a FIN) <= send.next, and send.next stays unchanged, so no byte beyond
\* send.next is put on the wire.
C36_RetransmitOnlySent ==
    (Idle /\ conn.current \in SendingStates /\ ~ShiftOverflows(conn.send)) =>
        \A avail \in AvailableValues,
           time \in {t \in PollTimes :
                        conn.duplicate_ack >= 2 \/ conn.retransmission_timer < t} :
            \E r \in {next_send_segment(conn, avail, time, four_tuple, FALSE)} :
                /\ r.c.send.next = conn.send.next
                /\ r.ret.segment.some =>
                    \E repr \in {r.ret.segment.v.repr} :
                        /\ repr.seq_number = conn.send.unacked
                        /\ SeqLe(SeqAdd(repr.seq_number,
                                        repr.payload_len + BoolToInt(repr.flags.fin)),
                                 conn.send.next)

\* C37: recv.next never moves backwards and never skips sequence space that
\* no accepted segment covered: in Established/FinWait an accepted
\* zero-payload segment without FIN leaves recv.next unchanged for every
\* in-window seq, and after set_recv_ack of a segment returned by arrives
\* recv.next advances only if the segment began at or before the old
\* recv.next.
C37_RecvNextContiguous ==
    (Idle /\ conn.current \in {"Established", "FinWait"}) =>
        \A seq \in ProbeSeqs(conn), len \in ProbeLens :
            \E segment \in {MkSegment(NoFlags, seq, Some(conn.send.unacked),
                                      0, None, None, len)} :
                ingress_acceptable(conn, segment) =>
                    \E r \in {arrives(conn, PacketOf(segment), four_tuple, -1, FALSE)} :
                        IF len = 0
                        THEN r.c.recv.next = conn.recv.next
                        ELSE /\ r.ret.receive.some
                             /\ \E c2 \in {set_recv_ack(r.c, r.ret.receive.v)} :
                                    /\ SeqLe(conn.recv.next, c2.recv.next)
                                    /\ c2.recv.next # conn.recv.next =>
                                            SeqLe(seq, conn.recv.next)

\* What the send buffer holds once the FIN is out: the data bytes still
\* unacknowledged, that is all of the sequence space in flight but the FIN.
AfterFin(c) ==
    [fin |-> TRUE, total |-> Max(SeqDiff(c.send.next, c.send.unacked) - 1, 0)]

\* The connection as it is, and as it is after the peer has acknowledged
\* every data byte in flight but not the FIN.
DataAcked(c) ==
    {c} \cup
    {arrives(c, PacketOf(MkSegment(NoFlags, c.recv.next,
                                   Some(SeqSub(c.send.next, 1)), w, None, None, 0)),
             four_tuple, -1, FALSE).c :
        w \in {x \in WindowValues : x > 0 /\ c.current = "FinWait"
                                          /\ SeqLt(c.send.unacked, c.send.next)}}

\* C38: a lost FIN is retransmitted: in FinWait, Closing or LastAck, while
\* the FIN is unacknowledged (send.unacked < send.next) and the send window
\* is not zero, polls of next_send_segment with advancing time come to emit a
\* segment with the FIN flag whose sequence space ends at send.next, also
\* when every data byte is acknowledged and only the FIN is outstanding.
C38_FinRetransmitted ==
    (/\ Idle
     /\ conn.current \in {"FinWait", "Closing", "LastAck"}
     /\ ~ShiftOverflows(conn.send)) =>
        \A c \in {x \in DataAcked(conn) :
                    SeqLt(x.send.unacked, x.send.next) /\ x.send.window > 0} :
            \E time \in PollTimes \cup (0 .. (c.retransmission_timer + 1)) :
                \E r \in {next_send_segment(c, AfterFin(c), time, four_tuple, FALSE)} :
                    /\ r.ret.segment.some
                    /\ r.ret.segment.v.repr.flags.fin
                    /\ SeqAdd(r.ret.segment.v.repr.seq_number,
                              r.ret.segment.v.repr.payload_len + 1) = c.send.next

\* A send buffer that holds exactly as many bytes as the peer's window takes.
WindowFilling(c) == [fin : BOOLEAN, total : {send_window(c.send)}]

\* C39: next_send_segment never puts more sequence space in flight than the
\* peer allows or the buffer holds: after any call that emits new data,
\* send.next - send.unacked (the FIN's sequence number included) <=
\* send.window << send.window_scale, and the emitted range has range.end <=
\* available.total.
C39_InFlightWithinWindow ==
    (Idle /\ conn.current \in SendingStates /\ ~ShiftOverflows(conn.send)) =>
        \A avail \in AvailableValues \cup WindowFilling(conn), time \in PollTimes :
            \E r \in {next_send_segment(conn, avail, time, four_tuple, FALSE)} :
                (r.ret.segment.some /\ r.c.send.next # conn.send.next) =>
                    /\ SeqDiff(r.c.send.next, r.c.send.unacked)
                            <= conn.send.window * (2 ^ conn.send.window_scale)
                    /\ r.ret.segment.v.range.end <= avail.total

\* C40: the assertion range.len() > 0 in select_send_segment holds in every
\* state reachable from a zeroed connection via open, arrives, set_recv_ack
\* and next_send_segment (sender_maximum_segment_size is never 0 when new
\* data is selected), and every emitted segment's payload_len equals its
\* range length, at most SMSS, with no u16 truncation.
C40_RangeNotEmpty ==
    /\ panicked # "assert range.len() > 0"
    /\ (Running /\ conn.current \in SendingStates) =>
            conn.sender_maximum_segment_size > 0
    /\ (last = "next_send_segment" /\ out.segment.some) =>
            out.segment.v.repr.payload_len
                = out.segment.v.range.end - out.segment.v.range.start
    /\ Idle =>
        \A avail \in AvailableValues \cup WindowFilling(conn), time \in PollTimes,
           debug \in BuildsFor(conn) :
            \E r \in {next_send_segment(conn, avail, time, four_tuple, debug)} :
                /\ r.panic # "assert range.len() > 0"
                /\ r.ret.segment.some =>
                    \E seg \in {r.ret.segment.v} :
                        /\ seg.repr.payload_len = seg.range.end - seg.range.start
                        /\ seg.repr.payload_len <= conn.sender_maximum_segment_size
                        /\ seg.repr.payload_len <= 65535
                        /\ seg.range.end > seg.range.start =>
                                conn.sender_maximum_segment_size > 0

\* Two bytes in flight have been sent again after a second duplicate ACK:
\* the segment starts at send.unacked and its payload is the range 0..2.
C40_Witness ==
    /\ last = "next_send_segment" /\ prior = "Established"
    /\ conn.duplicate_ack >= 2
    /\ SeqLt(conn.send.unacked, conn.send.next)
    /\ out.segment.some
    /\ out.segment.v.repr.seq_number = conn.send.unacked
    /\ out.segment.v.range = [start |-> 0, end |-> 2]
    /\ out.segment.v.repr.payload_len = 2
    /\ conn.sender_maximum_segment_size >= DefaultMss

====
